---- MODULE Spec2Model ----
(***************************************************************************)
(* MedQuest AI: the session notification engine, the notification          *)
(* dispatch, the service worker and the Pomodoro timer, as state machines. *)
(*                                                                         *)
(* Two builds of the App component are modelled, selected by `build`:      *)
(*   "App"  src/App.tsx          (single lastNotified marker, 5 s poll,    *)
(*                                in-component Pomodoro timer)             *)
(*   "P1"   src/unnamed/part_001 (lastNotified record, 10 s poll,          *)
(*                                worker-driven Pomodoro timer)            *)
(*                                                                         *)
(* React is modelled at the granularity of one event handler: a handler's  *)
(* state updates, the re-render and the effects whose dependencies changed *)
(* are one step.  What a callback closes over is kept explicitly:          *)
(* `engine` is what the interval callback of the notification effect       *)
(* captured when that effect last ran.                                     *)
(***************************************************************************)
EXTENDS Integers, Sequences, FiniteSets, TLC

VARIABLES
    build,                  \* which App component is running
    env,                    \* the browser: what the platform offers
    browserPermission,      \* Notification.permission
    clock,                  \* wall clock: [week, slot, unit]
    pollDue,                \* the engine's interval has elapsed, callback not yet run
    sinceTick,              \* poll periods elapsed since the last poll tick
    schedules,              \* useState<Schedule[]>
    activeScheduleId,       \* useState<string | null>, 0 is null
    nextScheduleId,         \* ids handed out so far (plan-<Date.now()>)
    nextSessionId,          \* ids handed out so far (session-<random>)
    lastNotified,           \* the last-fired marker
    notificationPermission, \* useState<NotificationPermission>
    mountPermission,        \* notificationPermission as the first render saw it
    notification,           \* the toast, NoToast when null
    engine,                 \* closure of the engine effect's interval callback
    fired,                  \* history: alerts per boundary in the current minute
    thrown,                 \* history: boundaries whose dispatch threw, current minute
    tickedThisMinute,       \* history: a poll tick ran in the current minute
    dueThisMinute,          \* history: boundaries a tick of this minute found due
    missed,                 \* history: boundaries due in the minute that just ended
                            \*          and not alerted in it
    tickless,               \* history: the minute that just ended saw no poll tick
    lastTick,               \* history: what the most recent poll tick did
    swInbox,                \* messages posted to the service worker, not yet handled
    swScript,               \* which service worker script is installed at /sw.js
    swLast,                 \* history: what the service worker did with its last message
    lastAlert,              \* history: the most recent call of triggerNotification
    timer,                  \* useState<TimerState>
    worker,                 \* timerWorker.js: its timeLeft and whether its interval is set
    toWorker,               \* messages posted to the timer worker, not yet received
    toMain,                 \* messages posted by the timer worker, not yet received
    clicks,                 \* clicks on the timer's buttons so far
    overtaken,              \* interval callbacks the worker ran while a message to it waited
    lastEvent,              \* history: the expiry that led to this state, if one did
    expiredModes,           \* history: the modes the last two expiries since Reset led to
    activatedBy,            \* history: the timer step that last made isActive true
    unalerted,              \* history: countdowns the page saw reach 0, less expiry alerts
    visible,                \* document.visibilityState = 'visible'
    tickedHidden,           \* history: the worker's interval ran while the tab was hidden
    localStorage,           \* window.localStorage: the two keys of the schedules
    currentView,            \* useState<View>
    newScheduleName,        \* useState(''): the name input of the schedule form
    isCreatingSchedule,     \* useState(false): the schedule form is open
    chatHistory,            \* useState<Record<Subject, ChatMessage[]>>
    isTyping,               \* useState(false): a tutor request is awaited
    lastRequest,            \* the contents last handed to generateContent
    isMiniMode,             \* useState(false): the internal mini mode (part_001)
    isPiPActive,            \* useState(false) (part_001)
    pip,                    \* the browser's picture-in-picture: refs, API, window
    wakeLockRef,            \* useRef(null): "null" or the sentinel last obtained (part_001)
    wakeLock,               \* navigator.wakeLock: requests pending, sentinels not released
    toasts                  \* the 5-second timers RaiseAlert left pending, each with the
                            \* toast it was set for, and which toast is shown (0: none of them)

engineVars == <<clock, pollDue, sinceTick, schedules, activeScheduleId,
                nextScheduleId, nextSessionId, lastNotified, notification, engine,
                fired, thrown, tickedThisMinute, dueThisMinute, missed, tickless, lastTick>>
permVars == <<browserPermission, notificationPermission, mountPermission>>
swHistory == <<swScript, swLast, lastAlert>>
swVars == <<swInbox, swHistory>>
visVars == <<visible, tickedHidden>>
timerVars == <<timer, worker, toWorker, toMain, clicks, overtaken, lastEvent, expiredModes,
               activatedBy, unalerted, visVars>>
formVars == <<currentView, newScheduleName, isCreatingSchedule>>
tutorVars == <<chatHistory, isTyping, lastRequest>>
pipVars == <<isMiniMode, isPiPActive, pip>>
lockVars == <<wakeLockRef, wakeLock>>
sideVars == <<tutorVars, pipVars, lockVars, toasts>>
uiVars == <<formVars, localStorage, sideVars>>
vars == <<build, env, uiVars, permVars, engineVars, swVars, timerVars>>

-----------------------------------------------------------------------------
(* Bounds of the model *)

MaxWeek == 1        \* the clock runs through weeks 0..MaxWeek
MaxSchedules == 2   \* schedules created in one run
MaxSessions == 1    \* sessions created in one run
MaxStored == 2      \* sessions found in localStorage at start
MaxCount == 2       \* history counters saturate here
MaxInbox == 2       \* messages waiting for the service worker
MaxMessages == 10    \* chat messages in one run

-----------------------------------------------------------------------------
(* Constants of the program *)

Builds == {"App", "P1"}

\* constants.ts
DAYS == <<"Monday", "Tuesday", "Wednesday", "Thursday", "Friday", "Saturday", "Sunday">>

\* setInterval period of the notification engine, in ms
PollMs(b) == IF b = "App" THEN 5000 ELSE 10000

\* one model time unit is one poll period of the running build
UnitsPerMinute(b) == (60 * 1000) \div PollMs(b)

\* The wall-clock minutes the model observes in every week, in order, as
\* [getDay, getHours, getMinutes] of `new Date()`.  Session days and times are
\* drawn from exactly these days and times, so no boundary falls in a minute
\* the clock skips.
ObservedDays == <<0, 1>>                    \* Date.getDay(): Sunday, Monday
ObservedTimes == <<<<0, 0>>, <<23, 59>>>>   \* 00:00 and 23:59
Timeline ==
    [i \in 1..(Len(ObservedDays) * Len(ObservedTimes)) |->
        LET d == ObservedDays[((i - 1) \div Len(ObservedTimes)) + 1]
            t == ObservedTimes[((i - 1) % Len(ObservedTimes)) + 1]
        IN  [getDay |-> d, getHours |-> t[1], getMinutes |-> t[2]]]

Now == Timeline[clock.slot]

-----------------------------------------------------------------------------
(* Date and string helpers *)

Digits == <<"0", "1", "2", "3", "4", "5", "6", "7", "8", "9">>

\* Number.prototype.toString() for 0..99, as a sequence of characters
NumToString(n) ==
    IF n < 10 THEN <<Digits[n + 1]>>
    ELSE <<Digits[(n \div 10) + 1], Digits[(n % 10) + 1]>>

\* String.prototype.padStart
RECURSIVE PadStart(_, _, _)
PadStart(s, len, ch) ==
    IF Len(s) >= len THEN s ELSE PadStart(<<ch>> \o s, len, ch)

\* part_001: `${h}:${m}` with h, m padded to two digits
TimeStrP1(now) ==
    PadStart(NumToString(now.getHours), 2, "0") \o <<":">> \o
    PadStart(NumToString(now.getMinutes), 2, "0")

\* App.tsx: toLocaleTimeString('en-GB', {hour: '2-digit', minute: '2-digit'}):
\* 24-hour clock, both fields two digits, joined by ':'
TimeStrApp(now) ==
    <<Digits[(now.getHours \div 10) + 1], Digits[(now.getHours % 10) + 1], ":",
      Digits[(now.getMinutes \div 10) + 1], Digits[(now.getMinutes % 10) + 1]>>

CurrentTimeStr(b, now) == IF b = "App" THEN TimeStrApp(now) ELSE TimeStrP1(now)

\* DAYS[now.getDay() === 0 ? 6 : now.getDay() - 1]   (DAYS is 0-based in the code)
CurrentDay(now) == DAYS[(IF now.getDay = 0 THEN 6 ELSE now.getDay - 1) + 1]

\* what the editor's <select> and <input type="time"> can hand to addSessionToActive
InputDays == {CurrentDay(Timeline[i]) : i \in DOMAIN Timeline}
InputTimes == {TimeStrP1(Timeline[i]) : i \in DOMAIN Timeline}
InputSubjects == {"Math"}

-----------------------------------------------------------------------------
(* Sessions, schedules, boundaries *)

Kinds == {"start", "end"}

\* `${session.id}-start`, `${session.id}-end`
BoundaryId(session, kind) == <<session.id, kind>>

Boundaries == (1..(MaxStored + MaxSessions)) \X Kinds

RECURSIVE Flatten(_)
\* schedules.forEach(schedule => schedule.sessions.forEach(...)): visiting order
Flatten(scheds) ==
    IF scheds = <<>> THEN <<>> ELSE Head(scheds).sessions \o Flatten(Tail(scheds))

SessionIds(scheds) == {Flatten(scheds)[i].id : i \in DOMAIN Flatten(scheds)}

ScheduleIds(scheds) == {scheds[i].id : i \in DOMAIN scheds}

Bump(f, b) == [f EXCEPT ![b] = IF @ < MaxCount THEN @ + 1 ELSE @]

-----------------------------------------------------------------------------
(* triggerNotification *)

Permissions == {"default", "granted", "denied"}

NoToast == [message |-> <<"none">>, type |-> "none", persistent |-> FALSE]

IosGuideToast ==
    [message |-> <<"iOS Alert: Add to Home Screen">>, type |-> "error", persistent |-> TRUE]

\* App.tsx: the only channel is `new Notification`
ChannelApp(perm, system) ==
    IF system /\ perm = "granted" THEN "Notification" ELSE "none"

\* A dispatch that never posts to the worker and calls showNotification instead
ChannelP1NoPostMessage(e, perm, system) ==
    IF ~(system /\ perm = "granted") THEN "none"
    ELSE IF e.serviceWorker THEN
        (CASE e.registration = "rejects" -> "none"
           [] e.registration \in {"active", "waiting"} -> "showNotification"
           [] OTHER -> "Notification")
    ELSE IF e.notificationApi THEN "Notification"
    ELSE "none"

\* part_001: which platform call the try block reaches.  e.registration is what
\* getRegistrations()[0] gives: "none" (undefined), "waiting" (no active worker),
\* "active", or "rejects" (the promise rejects, nothing is called).
ChannelP1(e, perm, system) ==
    IF ~(system /\ perm = "granted") THEN "none"
    ELSE IF e.serviceWorker THEN
        (CASE e.registration = "rejects" -> "none"
           [] e.registration = "active" -> "postMessage"
           [] e.registration = "waiting" -> "showNotification"
           [] OTHER -> "Notification")
    ELSE IF e.notificationApi THEN "Notification"
    ELSE "none"

Channel(b, e, perm, system) ==
    IF b = "App" THEN ChannelApp(perm, system) ELSE ChannelP1(e, perm, system)

\* The options object part_001 builds for the platform call
NotificationOptions(msg, persistent) ==
    [body |-> msg,
     tag |-> IF persistent THEN "medquest-alert-p" ELSE "medquest-alert-t",
     requireInteraction |-> persistent]

\* One call of triggerNotification(msg, type, system, persistent) from a render in
\* which notificationPermission was `perm`; `throws` says whether the platform
\* call it reaches throws.  The result: the toast it leaves, the channel it
\* called, whether an exception was raised inside the try block (always caught),
\* and the messages posted to the service worker.
TriggerNotification(b, e, perm, msg, type, system, persistent, throws) ==
    LET channel == Channel(b, e, perm, system)
        inTry == system /\ perm = "granted"
        rejected == b = "P1" /\ inTry /\ e.serviceWorker /\ e.registration = "rejects"
        \* `new Notification` where the constructor does not exist is a ReferenceError
        noCtor == channel = "Notification" /\ ~e.notificationApi
        threw == rejected \/ noCtor \/ (channel # "none" /\ throws)
        iosGuide == b = "P1" /\ system /\ perm # "granted" /\ e.iosTab
    IN  [toast |-> IF iosGuide THEN IosGuideToast
                   ELSE [message |-> msg, type |-> type, persistent |-> persistent],
         channel |-> channel,
         threw |-> threw,
         escaped |-> FALSE,
         posted |-> IF channel = "postMessage" /\ ~threw
                    THEN <<[type |-> "SHOW_NOTIFICATION", title |-> "MedQuest AI",
                            options |-> NotificationOptions(msg, persistent)]>>
                    ELSE <<>>]

-----------------------------------------------------------------------------
(* The session notification engine *)

\* The duplicate guard: has this boundary been notified already?
\*   App.tsx  lastNotified?.id !== startId          (one marker, id only)
\*   part_001 lastNotified[startId] !== currentTimeStr
\* The marker is kept as a function boundary id -> time string; App.tsx's
\* {id, time} | null is a function with at most one boundary in its domain.
AlreadyNotified(b, marker, id, timeStr) ==
    IF b = "App" THEN id \in DOMAIN marker
    ELSE id \in DOMAIN marker /\ marker[id] = timeStr

\* An engine that does not look at the session's day
DayMatchesAnyDay(session, currentDay) == TRUE

\* if (session.day === currentDay)
DayMatches(session, currentDay) == session.day = currentDay

\* The if / else-if of the interval callback for one session: which alert it
\* raises, "none" when neither branch is taken.
DueKind(b, session, marker, currentDay, timeStr) ==
    IF ~DayMatches(session, currentDay) THEN "none"
    ELSE IF session.startTime = timeStr
            /\ ~AlreadyNotified(b, marker, BoundaryId(session, "start"), timeStr)
         THEN "start"
    ELSE IF session.endTime = timeStr
            /\ ~AlreadyNotified(b, marker, BoundaryId(session, "end"), timeStr)
         THEN "end"
    ELSE "none"

\* The alerts one poll tick raises, in forEach order, as <<session, kind>> pairs.
\* The guard reads the marker the callback closed over, for every session.
RECURSIVE TickAlerts(_, _, _, _, _)
TickAlerts(b, sessions, marker, currentDay, timeStr) ==
    IF sessions = <<>> THEN <<>>
    ELSE LET k == DueKind(b, Head(sessions), marker, currentDay, timeStr)
         IN  (IF k = "none" THEN <<>> ELSE <<<<Head(sessions), k>>>>)
             \o TickAlerts(b, Tail(sessions), marker, currentDay, timeStr)

\* A marker that keeps only the last alert of a tick, in both builds
MarkerAfterLastOnly(b, marker, alerts, timeStr) ==
    IF alerts = <<>> THEN marker
    ELSE [x \in {BoundaryId(alerts[Len(alerts)][1], alerts[Len(alerts)][2])} |-> timeStr]

\* setLastNotified after the alerts of one tick:
\*   App.tsx  setLastNotified({id, time}): the last call wins
\*   part_001 setLastNotified(prev => ({...prev, [id]: time})): the calls add up
RECURSIVE MarkerAfter(_, _, _, _)
MarkerAfter(b, marker, alerts, timeStr) ==
    IF alerts = <<>> THEN marker
    ELSE LET id == BoundaryId(Head(alerts)[1], Head(alerts)[2])
             next == IF b = "App" THEN [x \in {id} |-> timeStr]
                     ELSE [x \in (DOMAIN marker) \cup {id} |->
                              IF x = id THEN timeStr ELSE marker[x]]
         IN  MarkerAfter(b, next, Tail(alerts), timeStr)

\* `START: ${session.subject} session!` / `FINISH: ${session.subject} session!`
AlertMessage(session, kind) ==
    <<IF kind = "start" THEN "START" ELSE "FINISH", session.subject>>

\* The dependency array of the engine effect: [schedules, lastNotified]
EngineDeps == {"schedules", "lastNotified"}

\* The effect's cleanup and re-run when one of `changed` is among its
\* dependencies: the interval is cleared and set again, its callback closing
\* over the values of the new render.
EngineAfter(changed, scheds, marker, perm) ==
    IF changed \cap EngineDeps # {}
    THEN [schedules |-> scheds, lastNotified |-> marker, permission |-> perm]
    ELSE engine

PollDueAfter(changed, due) == IF changed \cap EngineDeps # {} THEN FALSE ELSE due

EmptyMarker == [x \in {} |-> <<>>]

NoTick == <<>>

ZeroCounts == [x \in Boundaries |-> 0]

\* The boundaries of the stored sessions that fall on the current day and minute
DueNow(b, scheds, now) ==
    LET sessions == Flatten(scheds)
        due(s, k) == /\ s.day = CurrentDay(now)
                     /\ (IF k = "start" THEN s.startTime ELSE s.endTime)
                            = CurrentTimeStr(b, now)
    IN  {BoundaryId(sessions[p[1]], p[2]) :
            p \in {q \in (DOMAIN sessions) \X Kinds : due(sessions[q[1]], q[2])}}

\* the messages a sequence of triggerNotification calls posted, in order
RECURSIVE AllPosted(_)
AllPosted(results) ==
    IF results = <<>> THEN <<>> ELSE Head(results).posted \o AllPosted(Tail(results))

RECURSIVE BumpAll(_, _)
BumpAll(f, ids) ==
    IF ids = <<>> THEN f ELSE BumpAll(Bump(f, Head(ids)), Tail(ids))

\* The callback of setInterval(() => {...}, 5000 | 10000)
PollTick ==
    /\ pollDue
    /\ \E throws \in BOOLEAN :
        LET now == Now
            currentDay == CurrentDay(now)
            timeStr == CurrentTimeStr(build, now)
            alerts == TickAlerts(build, Flatten(engine.schedules), engine.lastNotified,
                                 currentDay, timeStr)
            marker == MarkerAfter(build, lastNotified, alerts, timeStr)
            result(i) == TriggerNotification(build, env, engine.permission,
                             AlertMessage(alerts[i][1], alerts[i][2]),
                             IF alerts[i][2] = "start" THEN "start" ELSE "end",
                             TRUE, build = "P1", throws)
            ids == [i \in DOMAIN alerts |-> BoundaryId(alerts[i][1], alerts[i][2])]
            changed == IF alerts = <<>> THEN {} ELSE {"lastNotified"}
        IN  /\ lastNotified' = marker
            /\ notification' = IF alerts = <<>> THEN notification
                               ELSE result(Len(alerts)).toast
            /\ engine' = EngineAfter(changed, schedules, marker, notificationPermission)
            /\ pollDue' = FALSE
            /\ sinceTick' = 0
            /\ fired' = BumpAll(fired, ids)
            /\ thrown' = thrown \cup {ids[i] : i \in {j \in DOMAIN alerts : result(j).threw}}
            /\ tickedThisMinute' = TRUE
            /\ dueThisMinute' = dueThisMinute \cup DueNow(build, schedules, now)
            /\ lastTick' =
                 [i \in DOMAIN alerts |->
                    [boundary |-> ids[i],
                     kind |-> alerts[i][2],
                     present |-> alerts[i][1].id \in SessionIds(schedules),
                     dayOk |-> alerts[i][1].day = currentDay,
                     timeOk |-> (IF alerts[i][2] = "start" THEN alerts[i][1].startTime
                                 ELSE alerts[i][1].endTime) = timeStr,
                     toast |-> result(i).toast.message
                                  = AlertMessage(alerts[i][1], alerts[i][2]),
                     channel |-> result(i).channel,
                     threw |-> result(i).threw,
                     afterThrow |-> ids[i] \in thrown,
                     escaped |-> result(i).escaped,
                     recorded |-> /\ ids[i] \in DOMAIN marker
                                  /\ marker[ids[i]] = timeStr,
                     permission |-> notificationPermission]]
            /\ swInbox' = swInbox \o AllPosted([i \in DOMAIN alerts |-> result(i)])
    /\ UNCHANGED <<build, env, uiVars, permVars, timerVars, swHistory, clock, schedules, activeScheduleId,
                   nextScheduleId, nextSessionId, missed, tickless>>

\* One poll period of wall-clock time passes.  A due interval callback runs
\* before more time passes.  The clock walks through Timeline in every week.
AdvanceClock ==
    /\ ~pollDue
    /\ LET rollover == clock.unit = UnitsPerMinute(build) - 1
           lastSlot == clock.slot = Len(Timeline)
       IN  /\ ~(rollover /\ lastSlot /\ clock.week = MaxWeek)
           /\ clock' = IF ~rollover THEN [clock EXCEPT !.unit = @ + 1]
                       ELSE IF ~lastSlot THEN [clock EXCEPT !.unit = 0, !.slot = @ + 1]
                       ELSE [week |-> clock.week + 1, slot |-> 1, unit |-> 0]
           /\ fired' = IF rollover THEN ZeroCounts ELSE fired
           /\ thrown' = IF rollover THEN {} ELSE thrown
           /\ tickedThisMinute' = IF rollover THEN FALSE ELSE tickedThisMinute
           /\ dueThisMinute' = IF rollover THEN {} ELSE dueThisMinute
           /\ missed' = IF rollover THEN {b \in dueThisMinute : fired[b] = 0} ELSE missed
           /\ tickless' = IF rollover THEN ~tickedThisMinute ELSE tickless
    /\ pollDue' = TRUE
    /\ sinceTick' = IF sinceTick < MaxCount THEN sinceTick + 1 ELSE sinceTick
    /\ lastTick' = NoTick
    /\ UNCHANGED <<build, env, uiVars, permVars, timerVars, swHistory, schedules, activeScheduleId, nextScheduleId,
                   nextSessionId, lastNotified, notification, engine, swInbox>>

-----------------------------------------------------------------------------
(* localStorage: JSON.stringify, JSON.parse and the two storage effects *)

STORAGE_KEY == "med_quest_v5_schedules"
ACTIVE_ID_KEY == "med_quest_v5_active_id"

\* JSON text, as the sequence of its tokens
Token(t, v) == [t |-> t, v |-> v]

RECURSIVE Concat(_)
Concat(seqs) == IF seqs = <<>> THEN <<>> ELSE Head(seqs) \o Concat(Tail(seqs))

\* a session is written with the keys of the editor's input and then its id
\* ({...session, id})
StringifySession(x) ==
    <<Token("{", 0), Token("key", "subject"), Token("string", x.subject), Token("key", "day"), Token("string", x.day),
      Token("key", "startTime"), Token("string", x.startTime), Token("key", "endTime"), Token("string", x.endTime),
      Token("key", "id"), Token("string", x.id), Token("}", 0)>>

StringifySchedule(s) ==
    <<Token("{", 0), Token("key", "id"), Token("string", s.id), Token("key", "name"), Token("string", s.name), Token("key", "sessions"),
      Token("[", 0)>>
    \o Concat([j \in DOMAIN s.sessions |-> StringifySession(s.sessions[j])])
    \o <<Token("]", 0), Token("}", 0)>>

\* JSON.stringify(schedules)
JsonStringify(scheds) ==
    <<Token("[", 0)>>
    \o Concat([i \in DOMAIN scheds |-> StringifySchedule(scheds[i])])
    \o <<Token("]", 0)>>

RECURSIVE ParseValue(_), ParseElements(_, _), ParseMembers(_, _)
\* each returns the value read and the tokens left after it
ParseValue(toks) ==
    CASE Head(toks).t = "[" -> ParseElements(Tail(toks), <<>>)
      [] Head(toks).t = "{" -> ParseMembers(Tail(toks), <<>>)
      [] OTHER -> [value |-> Head(toks).v, rest |-> Tail(toks)]

ParseElements(toks, acc) ==
    IF Head(toks).t = "]"
    THEN [value |-> acc, rest |-> Tail(toks)]
    ELSE LET r == ParseValue(toks)
         IN  ParseElements(r.rest, Append(acc, r.value))

\* a key read again replaces the value read before
ParseMembers(toks, acc) ==
    IF Head(toks).t = "}"
    THEN [value |-> acc, rest |-> Tail(toks)]
    ELSE LET r == ParseValue(Tail(toks))
         IN  ParseMembers(r.rest, (Head(toks).v :> r.value) @@ acc)

\* JSON.parse(text)
JsonParse(text) == ParseValue(text).value

\* an item of the storage: <<>> when the key is absent, <<value>> otherwise
NoItem == <<>>
EmptyStorage == [k \in {STORAGE_KEY, ACTIVE_ID_KEY} |-> NoItem]

\* useState initialiser of schedules: saved ? JSON.parse(saved) : []
InitialSchedules(store) ==
    IF store[STORAGE_KEY] # NoItem THEN JsonParse(store[STORAGE_KEY][1]) ELSE <<>>

\* useState initialiser of activeScheduleId: localStorage.getItem(ACTIVE_ID_KEY)
InitialActiveId(store) ==
    IF store[ACTIVE_ID_KEY] # NoItem THEN store[ACTIVE_ID_KEY][1] ELSE 0

\* effect on [schedules]
SyncSchedules(store, scheds) ==
    [store EXCEPT ![STORAGE_KEY] = <<JsonStringify(scheds)>>]

\* effect on [activeScheduleId], had it never removed the key
SyncActiveIdNoRemove(store, activeId) ==
    IF activeId # 0 THEN [store EXCEPT ![ACTIVE_ID_KEY] = <<activeId>>] ELSE store

\* effect on [activeScheduleId]
SyncActiveId(store, activeId) ==
    IF activeId # 0
    THEN [store EXCEPT ![ACTIVE_ID_KEY] = <<activeId>>]
    ELSE [store EXCEPT ![ACTIVE_ID_KEY] = NoItem]

\* the storage once both effects have run
StorageAfter(store, scheds, activeId) ==
    SyncActiveId(SyncSchedules(store, scheds), activeId)

\* what an earlier visit that held these schedules left in the storage
StorageLeftBy(scheds, activeId) == StorageAfter(EmptyStorage, scheds, activeId)

-----------------------------------------------------------------------------
(* The schedule form and the views *)

Views == {"MENU", "DASHBOARD", "EDITOR", "AI_TUTOR"}

Whitespace == {" "}

RECURSIVE TrimStart(_)
TrimStart(str) ==
    IF str # <<>> /\ Head(str) \in Whitespace THEN TrimStart(Tail(str)) ELSE str

RECURSIVE TrimEnd(_)
TrimEnd(str) ==
    IF str # <<>> /\ str[Len(str)] \in Whitespace
    THEN TrimEnd(SubSeq(str, 1, Len(str) - 1))
    ELSE str

\* String.prototype.trim, had it removed nothing
Untrimmed(str) == str

\* String.prototype.trim
Trim(str) == TrimEnd(TrimStart(str))

\* what the user may type into the name input
ScheduleNames == {<<>>, <<" ">>, <<"a">>, <<" ", "a", " ">>, <<"a", " ">>}
ProperNames == {name \in ScheduleNames : Trim(name) # <<>>}

-----------------------------------------------------------------------------
(* Schedule operations *)

\* a toast raised by a handler: triggerNotification(msg, type) with system = false
HandlerToast(msg, type) ==
    TriggerNotification(build, env, notificationPermission, msg, type,
                        FALSE, FALSE, FALSE).toast

\* handleCreateSchedule, run by the render that holds `name` in the name input
HandleCreateSchedule(name) ==
    IF Trim(name) = <<>>
    THEN UNCHANGED vars
    ELSE /\ nextScheduleId < MaxSchedules
         /\ LET newSchedule == [id |-> nextScheduleId + 1, name |-> Trim(name),
                                sessions |-> <<>>]
                scheds == Append(schedules, newSchedule)
            IN  /\ schedules' = scheds
                /\ activeScheduleId' = newSchedule.id
                /\ nextScheduleId' = nextScheduleId + 1
                /\ notification' = HandlerToast(<<"Protocol initiated">>, "success")
                /\ engine' = EngineAfter({"schedules"}, scheds, lastNotified,
                                         notificationPermission)
                /\ pollDue' = PollDueAfter({"schedules"}, pollDue)
                /\ localStorage' = StorageAfter(localStorage, scheds, newSchedule.id)
         /\ newScheduleName' = <<>>
         /\ isCreatingSchedule' = FALSE
         /\ currentView' = "EDITOR"
         /\ UNCHANGED <<build, env, sideVars, permVars, timerVars, swHistory, clock, sinceTick,
                        nextSessionId, lastNotified, fired, thrown, tickedThisMinute,
                        dueThisMinute, missed, tickless, lastTick, swInbox>>

\* the schedule form is submitted as it stands
SubmitSchedule == HandleCreateSchedule(newScheduleName)

\* the user types a name into the name input and submits the form
CreateSchedule == \E name \in ProperNames : HandleCreateSchedule(name)

\* MenuView: "new plan" button, setIsCreating(true)
OpenScheduleForm ==
    /\ ~isCreatingSchedule
    /\ isCreatingSchedule' = TRUE
    /\ UNCHANGED <<build, env, sideVars, currentView, newScheduleName, localStorage, permVars,
                   engineVars, swVars, timerVars>>

\* MenuView: the name input's onChange, setNewName(e.target.value)
ChangeScheduleName ==
    /\ \E name \in ScheduleNames :
        /\ name # newScheduleName
        /\ newScheduleName' = name
    /\ UNCHANGED <<build, env, sideVars, currentView, isCreatingSchedule, localStorage, permVars,
                   engineVars, swVars, timerVars>>

\* the logo and the three NavButtons of the header
Navigate ==
    /\ \E button \in Views :
        LET view == IF /\ button \in {"DASHBOARD", "EDITOR"}
                       /\ activeScheduleId \notin ScheduleIds(schedules)
                    THEN "MENU"
                    ELSE button
        IN  /\ view # currentView
            /\ currentView' = view
    /\ UNCHANGED <<build, env, sideVars, newScheduleName, isCreatingSchedule, localStorage,
                   permVars, engineVars, swVars, timerVars>>

\* MenuView onSelect, had it also stopped the countdown
SelectScheduleStopsTimer ==
    /\ \E id \in ScheduleIds(schedules) :
        /\ id # activeScheduleId
        /\ activeScheduleId' = id
        /\ localStorage' = SyncActiveId(localStorage, id)
    /\ currentView' = "DASHBOARD"
    /\ timer' = [timer EXCEPT !.isActive = FALSE]
    /\ UNCHANGED <<build, env, sideVars, newScheduleName, isCreatingSchedule, permVars, worker,
                   toWorker, toMain, clicks, overtaken,
                   lastEvent, expiredModes, activatedBy, unalerted, visVars, swHistory, clock,
                   pollDue, sinceTick, schedules, nextScheduleId, nextSessionId,
                   lastNotified, notification, engine, fired, thrown, tickedThisMinute,
                   dueThisMinute, missed, tickless, lastTick, swInbox>>

\* MenuView onSelect
SelectSchedule ==
    /\ \E id \in ScheduleIds(schedules) :
        /\ id # activeScheduleId
        /\ activeScheduleId' = id
        /\ localStorage' = SyncActiveId(localStorage, id)
    /\ currentView' = "DASHBOARD"
    /\ UNCHANGED <<build, env, sideVars, newScheduleName, isCreatingSchedule, permVars, timerVars,
                   swHistory, clock, pollDue, sinceTick, schedules,
                   nextScheduleId, nextSessionId, lastNotified, notification, engine,
                   fired, thrown, tickedThisMinute, dueThisMinute, missed, tickless,
                   lastTick, swInbox>>

\* MenuView onDelete, had it left activeScheduleId as it was
DeleteScheduleKeepsActive ==
    /\ \E id \in ScheduleIds(schedules) :
        LET scheds == SelectSeq(schedules, LAMBDA s : s.id # id)
            activeId == activeScheduleId
        IN  /\ schedules' = scheds
            /\ activeScheduleId' = activeId
            /\ engine' = EngineAfter({"schedules"}, scheds, lastNotified,
                                     notificationPermission)
            /\ pollDue' = PollDueAfter({"schedules"}, pollDue)
            /\ localStorage' = StorageAfter(localStorage, scheds, activeId)
    /\ UNCHANGED <<build, env, sideVars, formVars, permVars, timerVars, swHistory, clock, sinceTick,
                   nextScheduleId, nextSessionId, lastNotified, notification, fired,
                   thrown, tickedThisMinute, dueThisMinute, missed, tickless, lastTick,
                   swInbox>>

\* MenuView onDelete, confirmed
DeleteSchedule ==
    /\ \E id \in ScheduleIds(schedules) :
        LET scheds == SelectSeq(schedules, LAMBDA s : s.id # id)
            activeId == IF activeScheduleId = id THEN 0 ELSE activeScheduleId
        IN  /\ schedules' = scheds
            /\ activeScheduleId' = activeId
            /\ engine' = EngineAfter({"schedules"}, scheds, lastNotified,
                                     notificationPermission)
            /\ pollDue' = PollDueAfter({"schedules"}, pollDue)
            /\ localStorage' = StorageAfter(localStorage, scheds, activeId)
    /\ UNCHANGED <<build, env, sideVars, formVars, permVars, timerVars, swHistory, clock, sinceTick,
                   nextScheduleId, nextSessionId, lastNotified, notification, fired,
                   thrown, tickedThisMinute, dueThisMinute, missed, tickless, lastTick,
                   swInbox>>

\* What the session editor can hand to addSessionToActive (Omit<StudySession, 'id'>)
SessionInputs ==
    [subject : InputSubjects, day : InputDays, startTime : InputTimes, endTime : InputTimes]

WithId(input, id) ==
    [id |-> id, subject |-> input.subject, day |-> input.day,
     startTime |-> input.startTime, endTime |-> input.endTime]

\* the updater of addSessionToActive, had it appended to every schedule
AppendSessionToAll(scheds, activeId, session) ==
    [i \in DOMAIN scheds |-> [scheds[i] EXCEPT !.sessions = Append(@, session)]]

\* prev.map(s => s.id === activeScheduleId ? {...s, sessions: [...s.sessions, x]} : s)
AppendSession(scheds, activeId, session) ==
    [i \in DOMAIN scheds |->
        IF scheds[i].id = activeId
        THEN [scheds[i] EXCEPT !.sessions = Append(@, session)]
        ELSE scheds[i]]

\* addSessionToActive(session)
AddSession(input) ==
    /\ IF activeScheduleId = 0
       THEN /\ notification' = IF build = "App"
                               THEN HandlerToast(<<"Selection required">>, "error")
                               ELSE notification
            /\ UNCHANGED <<schedules, nextSessionId, engine, pollDue, localStorage>>
       ELSE LET session == WithId(input, nextSessionId + 1)
                scheds == AppendSession(schedules, activeScheduleId, session)
            IN  /\ schedules' = scheds
                /\ nextSessionId' = nextSessionId + 1
                /\ notification' = HandlerToast(<<input.subject, "session added">>, "success")
                /\ engine' = EngineAfter({"schedules"}, scheds, lastNotified,
                                         notificationPermission)
                /\ pollDue' = PollDueAfter({"schedules"}, pollDue)
                /\ localStorage' = SyncSchedules(localStorage, scheds)
    /\ UNCHANGED <<build, env, sideVars, formVars, permVars, timerVars, swHistory, clock, sinceTick,
                   activeScheduleId, nextScheduleId, lastNotified, fired, thrown,
                   tickedThisMinute, dueThisMinute, missed, tickless, lastTick, swInbox>>

\* the session editor's add button
AddSessionToActive ==
    /\ nextSessionId < MaxSessions
    /\ \E input \in SessionInputs : AddSession(input)

\* the updater of removeSessionFromActive, had it filtered every schedule
WithoutSessionAnywhere(scheds, activeId, sessionId) ==
    [i \in DOMAIN scheds |->
        [scheds[i] EXCEPT !.sessions = SelectSeq(@, LAMBDA x : x.id # sessionId)]]

\* prev.map(s => s.id === activeScheduleId
\*                 ? {...s, sessions: s.sessions.filter(x => x.id !== sessionId)} : s)
WithoutSession(scheds, activeId, sessionId) ==
    [i \in DOMAIN scheds |->
        IF scheds[i].id = activeId
        THEN [scheds[i] EXCEPT !.sessions = SelectSeq(@, LAMBDA x : x.id # sessionId)]
        ELSE scheds[i]]

\* removeSessionFromActive(sessionId)
RemoveSession(sessionId) ==
    /\ LET scheds == WithoutSession(schedules, activeScheduleId, sessionId)
       IN  /\ schedules' = scheds
           /\ engine' = EngineAfter({"schedules"}, scheds, lastNotified,
                                    notificationPermission)
           /\ pollDue' = PollDueAfter({"schedules"}, pollDue)
           /\ localStorage' = SyncSchedules(localStorage, scheds)
    /\ UNCHANGED <<build, env, sideVars, formVars, permVars, timerVars, swHistory, clock, sinceTick,
                   activeScheduleId, nextScheduleId, nextSessionId, lastNotified,
                   notification, fired, thrown, tickedThisMinute, dueThisMinute, missed,
                   tickless, lastTick, swInbox>>

\* removeSessionFromActive, from the editor's list of the active schedule
RemoveSessionFromActive ==
    \E i \in DOMAIN schedules :
        /\ schedules[i].id = activeScheduleId
        /\ \E j \in DOMAIN schedules[i].sessions :
            RemoveSession(schedules[i].sessions[j].id)

-----------------------------------------------------------------------------
(* The AI tutor: handleSendMessage and getTutorResponse *)

\* subjects the tutor is consulted on
TutorSubjects == {"Math", "Biology"}

\* what the user types into the chat input, and what response.text can be
\* ("" stands for a response without text)
UserTexts == {"a", "b"}
ResponseTexts == {"", "r"}

\* getTutorResponse, had its catch block returned nothing
GetTutorResponseNoFallback(text, throws) ==
    IF throws \/ text = "" THEN "" ELSE text

\* geminiService.ts, getTutorResponse after generateContent settled: the text
\* of the response, or the fixed text of the catch block when the call threw
\* or the response carries no text
GetTutorResponse(text, throws) ==
    IF throws \/ text = "" THEN "The specialist node is temporarily unavailable."
    ELSE text

\* history.slice(-6)
HistoryWindow == 6

\* getTutorResponse, had it sent the whole history
ConversationOfWholeHistory(message, history) ==
    [i \in DOMAIN history |-> [role |-> history[i].role, text |-> history[i].content]]
    \o <<[role |-> "user", text |-> message]>>

\* Array.prototype.slice(-n)
SliceLast(seq, n) == SubSeq(seq, IF Len(seq) > n THEN Len(seq) - n + 1 ELSE 1, Len(seq))

\* getTutorResponse: conversationHistory
ConversationHistory(message, history) ==
    LET recent == SliceLast(history, HistoryWindow)
    IN  [i \in DOMAIN recent |-> [role |-> recent[i].role, text |-> recent[i].content]]
        \o <<[role |-> "user", text |-> message]>>

\* messages in all chats
ChatLength ==
    Cardinality(UNION {{<<s, i>> : i \in DOMAIN chatHistory[s]} : s \in TutorSubjects})

\* TutorView's form onSubmit and handleSendMessage up to its await: the user
\* message is queued for the next render and the request goes out with the
\* history this render holds
SendMessage ==
    /\ ~isTyping
    /\ ChatLength < MaxMessages
    /\ \E subject \in TutorSubjects, text \in UserTexts :
        /\ chatHistory' = [chatHistory EXCEPT
                              ![subject] = Append(@, [role |-> "user", content |-> text])]
        /\ lastRequest' = [subject |-> subject,
                           contents |-> ConversationHistory(text, chatHistory[subject])]
    /\ isTyping' = TRUE
    /\ UNCHANGED <<build, env, formVars, localStorage, pipVars, lockVars, toasts, permVars, engineVars,
                   swVars, timerVars>>

\* handleSendMessage after its await: the response has arrived
ReceiveResponse ==
    /\ isTyping
    /\ isTyping' = FALSE
    /\ \E text \in ResponseTexts, throws \in BOOLEAN :
        LET responseText == GetTutorResponse(text, throws)
        IN  chatHistory' = IF responseText # ""
                           THEN [chatHistory EXCEPT ![lastRequest.subject] =
                                    Append(@, [role |-> "model", content |-> responseText])]
                           ELSE chatHistory
    /\ UNCHANGED <<build, env, formVars, localStorage, pipVars, lockVars, toasts, permVars, engineVars,
                   swVars, timerVars, lastRequest>>

InitTutor ==
    /\ chatHistory = [s \in TutorSubjects |-> <<>>]
    /\ isTyping = FALSE
    /\ lastRequest = [subject |-> "none", contents |-> <<>>]

-----------------------------------------------------------------------------
(* Picture-in-picture and the internal mini mode (part_001) *)

\* what togglePiP finds: whether the video and canvas refs are set, which
\* picture-in-picture API the video offers, whether a picture-in-picture
\* window is open
PipStates == [refs : BOOLEAN, api : {"standard", "webkit", "none"}, open : BOOLEAN]

\* togglePiP; `rejects`: a promise it awaits rejects or a call it makes throws
TogglePiP(p, active, rejects) ==
    LET unchanged == [success |-> FALSE, isPiPActive |-> active, pip |-> p]
    IN  IF ~p.refs THEN unchanged
        ELSE IF p.open
        THEN IF rejects /\ p.api # "none" THEN unchanged
             ELSE [success |-> TRUE, isPiPActive |-> FALSE,
                   pip |-> [p EXCEPT !.open = (p.api = "none")]]
        ELSE IF rejects \/ p.api = "none" THEN unchanged
             ELSE [success |-> TRUE, isPiPActive |-> TRUE, pip |-> [p EXCEPT !.open = TRUE]]

\* handleMinimize, had it entered the mini mode whatever togglePiP returned
MiniModeAlways(success, mini) == TRUE

\* handleMinimize: if (!success) setIsMiniMode(true)
MiniModeAfter(success, mini) == IF ~success THEN TRUE ELSE mini

\* handleMinimize; its awaits are taken in one step: what follows them reads
\* no state
HandleMinimize(rejects) ==
    /\ build = "P1"
    /\ LET result == TogglePiP(pip, isPiPActive, rejects)
        IN  /\ isPiPActive' = result.isPiPActive
            /\ pip' = result.pip
            /\ isMiniMode' = MiniModeAfter(result.success, isMiniMode)
            /\ notification' =
                   IF ~result.success
                   THEN HandlerToast(<<"System window blocked. Using internal mini-mode instead.">>,
                                     "info")
                   ELSE notification
    /\ UNCHANGED <<build, env, formVars, localStorage, tutorVars, lockVars, toasts, permVars, timerVars,
                   swVars, clock, pollDue, sinceTick, schedules, activeScheduleId,
                   nextScheduleId, nextSessionId, lastNotified, engine, fired, thrown,
                   tickedThisMinute, dueThisMinute, missed, tickless, lastTick>>

\* the header's minimize button
Minimize == \E rejects \in BOOLEAN : HandleMinimize(rejects)

\* the mini mode's close button: setIsMiniMode(false)
CloseMiniMode ==
    /\ isMiniMode
    /\ isMiniMode' = FALSE
    /\ UNCHANGED <<build, env, formVars, localStorage, tutorVars, lockVars, toasts, isPiPActive, pip,
                   permVars, engineVars, swVars, timerVars>>

\* the user closes the picture-in-picture window with the browser's own button
ClosePipWindow ==
    /\ pip.open
    /\ pip' = [pip EXCEPT !.open = FALSE]
    /\ UNCHANGED <<build, env, formVars, localStorage, tutorVars, lockVars, toasts, isPiPActive,
                   isMiniMode, permVars, engineVars, swVars, timerVars>>

\* a browser with the standard API, the refs set, no window open
PlainPip == [refs |-> TRUE, api |-> "standard", open |-> FALSE]

InitPip(states) ==
    /\ pip \in states
    /\ isMiniMode = FALSE
    /\ isPiPActive = FALSE

-----------------------------------------------------------------------------
(* Notification permission *)

\* What the first render hands to the effects that run once on mount: App.tsx
\* starts notificationPermission at 'default' and corrects it in a mount
\* effect, part_001 starts it at Notification.permission.
FirstRenderPermission(b, browserPerm) ==
    IF b = "App" THEN "default" ELSE browserPerm

\* The call of triggerNotification that requestNotificationPermission makes for
\* the browser's answer, "none" when it makes none
RequestAlert(b, answer) ==
    CASE answer = "granted" ->
            [msg |-> <<"Notifications enabled">>, type |-> "success",
             system |-> b = "P1", persistent |-> FALSE]
      [] answer = "denied" ->
            [msg |-> <<"Notifications blocked">>, type |-> "error",
             system |-> FALSE, persistent |-> b = "P1"]
      [] OTHER -> [msg |-> <<"none">>, type |-> "none", system |-> FALSE,
                   persistent |-> FALSE]

\* requestNotificationPermission.  Notification.requestPermission() asks the
\* user only while the permission is 'default' and answers with the stored
\* permission otherwise.  triggerNotification is the one of the render in which
\* the button was clicked.  (part_001 then also shows a test notification
\* through navigator.serviceWorker.ready, which no variable here observes.)
RequestNotificationPermission ==
    /\ Len(swInbox) < MaxInbox
    /\ \E answer \in Permissions, throws \in BOOLEAN :
        LET a == RequestAlert(build, answer)
            unsupported == [msg |-> <<"Notifications unsupported">>, type |-> "error",
                            system |-> FALSE, persistent |-> build = "P1"]
            call == IF env.notificationApi THEN a ELSE unsupported
            r == TriggerNotification(build, env, notificationPermission, call.msg,
                                     call.type, call.system, call.persistent, throws)
        IN  /\ env.notificationApi /\ browserPermission # "default"
                => answer = browserPermission
            /\ ~env.notificationApi => answer = browserPermission
            /\ browserPermission' = answer
            /\ notificationPermission' = IF env.notificationApi THEN answer
                                         ELSE notificationPermission
            /\ notification' = IF call.type = "none" THEN notification ELSE r.toast
            /\ swInbox' = IF call.type = "none" THEN swInbox ELSE swInbox \o r.posted
    /\ UNCHANGED <<build, env, uiVars, mountPermission, timerVars, swHistory,
                   clock, pollDue, sinceTick, schedules, activeScheduleId,
                   nextScheduleId, nextSessionId, lastNotified, engine, fired, thrown,
                   tickedThisMinute, dueThisMinute, missed, tickless, lastTick>>

\* part_001: syncPermission, the listener of the window's 'focus' event
SyncPermission ==
    /\ build = "P1"
    /\ env.notificationApi
    /\ notificationPermission' = browserPermission
    /\ UNCHANGED <<build, env, uiVars, browserPermission, mountPermission, engineVars, swVars,
                   timerVars>>

\* The user changes the site's notification permission in the browser's settings
ChangeSitePermission ==
    /\ env.notificationApi
    /\ \E p \in Permissions \ {browserPermission} : browserPermission' = p
    /\ UNCHANGED <<build, env, uiVars, notificationPermission, mountPermission, engineVars,
                   swVars, timerVars>>

-----------------------------------------------------------------------------
(* The service worker *)

\* The service worker scripts of the repository: src/sw.js, and the v1.0.4
\* script that follows the App component in src/App.tsx.  The listeners each adds:
SwScripts == {"sw.js", "v1.0.4"}

SwListeners(script) ==
    IF script = "sw.js" THEN {"install", "activate", "push", "notificationclick"}
    ELSE {"install", "activate", "fetch", "push", "notificationclick", "message"}

\* v1.0.4: { ...options, data: { dateOfArrival: Date.now(), ...options.data } }
WithDateOfArrival(options) ==
    [body |-> options.body, tag |-> options.tag,
     requireInteraction |-> options.requireInteraction,
     data |-> [dateOfArrival |-> "Date.now()"]]

\* v1.0.4: the 'message' listener; the showNotification calls it makes
OnMessage(msg) ==
    IF msg.type = "SHOW_NOTIFICATION"
    THEN <<[title |-> msg.title, options |-> WithDateOfArrival(msg.options)]>>
    ELSE <<>>

\* A message event delivered to the worker running `script`: a script without
\* a 'message' listener does nothing with it.
SwDeliver(script, msg) ==
    IF "message" \in SwListeners(script) THEN OnMessage(msg) ELSE <<>>

NoSwMessage == [handled |-> FALSE]

NoAlert == [raised |-> FALSE]

\* The active service worker takes the next message posted to it
SwReceive ==
    /\ swInbox # <<>>
    /\ swLast' = [handled |-> TRUE, message |-> Head(swInbox),
                  shown |-> SwDeliver(swScript, Head(swInbox))]
    /\ swInbox' = Tail(swInbox)
    /\ UNCHANGED <<build, env, uiVars, permVars, engineVars, timerVars, swScript, lastAlert>>

\* index.tsx: register('/sw.js') resolves with a registration whose worker is
\* installing; install calls skipWaiting(), and the worker becomes active
SwLifecycle ==
    /\ env.serviceWorker
    /\ env.registration \in {"none", "waiting"}
    /\ env' = [env EXCEPT !.registration = IF @ = "none" THEN "waiting" ELSE "active"]
    /\ UNCHANGED <<build, uiVars, permVars, engineVars, timerVars, swVars>>

\* the alerts the handlers of the app raise
AlertInputs ==
    [msg : {<<"START", "Math">>, <<"END", "Math">>}, type : {"start"}, system : BOOLEAN,
     persistent : BOOLEAN]

MaxToasts == 2      \* 5-second toast timers pending at one time

\* The end of triggerNotification(msg, ...) for the toast numbered `id`:
\*   App.tsx   setTimeout(() => setNotification(null), 5000)
\*   part_001  if (!persistent) setTimeout(() => setNotification(prev => ...), 5000)
ToastsAfter(b, msg, persistent, id) ==
    [timers |-> IF b = "P1" /\ persistent THEN toasts.timers
                ELSE Append(toasts.timers, [message |-> msg, toast |-> id]),
     shown |-> id]

\* Some handler of the current render calls triggerNotification
RaiseAlert ==
    /\ Len(swInbox) < MaxInbox
    /\ Len(toasts.timers) < MaxToasts
    /\ \E a \in AlertInputs, throws \in BOOLEAN :
        LET r == TriggerNotification(build, env, notificationPermission, a.msg, a.type,
                                     a.system, a.persistent, throws)
            \* a number no pending timer carries
            id == CHOOSE n \in 1..(MaxToasts + 1) :
                      /\ \A i \in DOMAIN toasts.timers : toasts.timers[i].toast # n
                      /\ \A m \in 1..(n - 1) :
                            \E i \in DOMAIN toasts.timers : toasts.timers[i].toast = m
        IN  /\ notification' = r.toast
            /\ toasts' = ToastsAfter(build, a.msg, a.persistent, id)
            /\ swInbox' = swInbox \o r.posted
            /\ lastAlert' = [raised |-> TRUE, system |-> a.system,
                             persistent |-> a.persistent,
                             permission |-> notificationPermission,
                             serviceWorker |-> env.serviceWorker,
                             registration |-> env.registration,
                             notificationApi |-> env.notificationApi,
                             channel |-> r.channel, threw |-> r.threw]
    /\ UNCHANGED <<build, env, formVars, localStorage, tutorVars, pipVars, lockVars,
                   permVars, timerVars, swScript, swLast,
                   clock, pollDue, sinceTick, schedules, activeScheduleId,
                   nextScheduleId, nextSessionId, lastNotified, engine, fired, thrown,
                   tickedThisMinute, dueThisMinute, missed, tickless, lastTick>>

\* The callback of the 5-second timer, applied to the toast shown:
\*   App.tsx   setNotification(null)
\*   part_001  setNotification(prev => prev?.message === msg ? null : prev)
ToastTimeoutApplied(b, prev, msg) ==
    IF b = "App" \/ prev.message = msg THEN NoToast ELSE prev

\* The oldest pending toast timer fires (all of them run for 5000 ms)
ToastTimeout ==
    /\ toasts.timers # <<>>
    /\ notification' = ToastTimeoutApplied(build, notification, Head(toasts.timers).message)
    /\ toasts' = [timers |-> Tail(toasts.timers),
                  shown |-> IF notification' = NoToast THEN 0 ELSE toasts.shown]
    /\ UNCHANGED <<build, env, formVars, localStorage, tutorVars, pipVars, lockVars,
                   permVars, timerVars, swVars, clock, pollDue, sinceTick, schedules,
                   activeScheduleId, nextScheduleId, nextSessionId, lastNotified, engine,
                   fired, thrown, tickedThisMinute, dueThisMinute, missed, tickless,
                   lastTick>>

InitServiceWorker ==
    /\ swInbox = <<>>
    /\ swLast = NoSwMessage
    /\ lastAlert = NoAlert

-----------------------------------------------------------------------------
(* The Pomodoro timer *)

MaxInFlight == 2    \* messages waiting in one direction between page and timer worker
MaxBelowZero == 2   \* how far below zero the worker is followed counting
MaxClicks == 3      \* clicks on the timer's buttons in one run
MaxRemaining == 2   \* seconds left on the countdown where the last seconds are observed
MaxPolls == 2       \* poll periods observed where the first periods are observed
MaxOvertake == 1    \* interval callbacks that may run before a waiting message is received

\* TimerState.mode
Modes == {"study", "break"}

\* useState<TimerState>({ isActive: false, timeLeft: 25 * 60, mode: 'study' })
InitialTimer == [isActive |-> FALSE, timeLeft |-> 25 * 60, mode |-> "study"]

\* timerWorker.js: let timerId = null; let timeLeft = 0;
InitialWorker == [timeLeft |-> 0, running |-> FALSE]

NoEvent == [name |-> "none", from |-> "none"]

\* App.tsx, the timer effect's branch for timer.timeLeft === 0: the state it sets
ExpiredTimer(t) ==
    [isActive |-> FALSE,
     mode |-> IF t.mode = "study" THEN "break" ELSE "study",
     timeLeft |-> IF t.mode = "study" THEN 5 * 60 ELSE 25 * 60]

\* An expiry that keeps the mode and restarts it
HandleTimerExpiredSameMode(prev) ==
    [isActive |-> FALSE, mode |-> prev.mode,
     timeLeft |-> IF prev.mode = "study" THEN 25 * 60 ELSE 5 * 60]

\* part_001, the updater handleTimerExpired hands to setTimer
HandleTimerExpired(prev) ==
    LET nextMode == IF prev.mode = "study" THEN "break" ELSE "study"
        nextTime == IF nextMode = "study" THEN 25 * 60 ELSE 5 * 60
    IN  [isActive |-> FALSE, mode |-> nextMode, timeLeft |-> nextTime]

\* the message of the expiry alert
ExpiryMessage(b, mode) ==
    IF b = "App"
    THEN (IF mode = "study" THEN <<"Time for a break!">> ELSE <<"Break over! Let's study.">>)
    ELSE (IF mode = "study" THEN <<"Break Protocol Initiated">>
          ELSE <<"Study Protocol Resumed">>)

\* part_001, the effect on [timer.isActive]: what it posts to the worker when a
\* render changed isActive.  App.tsx has no worker.
IsActiveEffect(b, before, after) ==
    IF b = "P1" /\ before.isActive # after.isActive
    THEN (IF after.isActive THEN <<[type |-> "START", timeLeft |-> after.timeLeft]>>
          ELSE <<[type |-> "STOP"]>>)
    ELSE <<>>

\* part_001, the effect on [timer.isActive]: requestWakeLock() up to its await
\* when a render made the timer active, releaseWakeLock() when a render made it
\* inactive.  handleTimerExpired calls releaseWakeLock() as well, in the same
\* step.  App.tsx takes no wake lock.
WakeLockAfter(b, before, after, ref, lock) ==
    IF b # "P1" \/ before.isActive = after.isActive
    THEN [ref |-> ref, lock |-> lock]
    ELSE IF after.isActive
    THEN [ref |-> ref, lock |-> [lock EXCEPT !.pending = @ + 1]]
    ELSE IF ref # "null"
    THEN [ref |-> "null", lock |-> [lock EXCEPT !.held = @ - 1]]
    ELSE [ref |-> ref, lock |-> lock]

\* the last two of a sequence
LastTwo(seq) == IF Len(seq) <= 2 THEN seq ELSE SubSeq(seq, Len(seq) - 1, Len(seq))

\* The history of a timer step `name` that sets the timer to `after`
TimerHistory(name, after) ==
    /\ lastEvent' = IF name = "expired" THEN [name |-> name, from |-> timer.mode]
                    ELSE NoEvent
    /\ activatedBy' = IF ~timer.isActive /\ after.isActive THEN name ELSE activatedBy
    /\ expiredModes' = CASE name = "expired" -> LastTwo(Append(expiredModes, after.mode))
                         [] name = "reset" -> <<>>
                         [] OTHER -> expiredModes
    /\ unalerted' = unalerted
                     + (IF timer.timeLeft # 0 /\ (after.timeLeft = 0 \/ (build = "App" /\ name = "expired"))
                        THEN 1 ELSE 0)
                     - (IF name = "expired" THEN 1 ELSE 0)

\* The expiry alert: triggerNotification(msg, 'end', true[, true]) as the closure
\* that raises it sees the permission.  App.tsx raises it from the timer effect
\* of the current render, part_001 from handleTimerExpired of the first render
\* (the worker's onmessage is set once, on mount).
ExpiryAlert(mode, throws) ==
    TriggerNotification(build, env,
                        IF build = "App" THEN notificationPermission ELSE mountPermission,
                        ExpiryMessage(build, mode), "end", TRUE, build = "P1", throws)

\* The Start / Pause button: setTimer(t => ({...t, isActive: !t.isActive}))
ToggleTimer ==
    /\ clicks < MaxClicks
    /\ Len(toWorker) < MaxInFlight
    /\ LET after == [timer EXCEPT !.isActive = ~@]
       IN  /\ timer' = after
           /\ toWorker' = toWorker \o IsActiveEffect(build, timer, after)
           /\ wakeLockRef' = WakeLockAfter(build, timer, after, wakeLockRef, wakeLock).ref
           /\ wakeLock' = WakeLockAfter(build, timer, after, wakeLockRef, wakeLock).lock
           /\ TimerHistory("toggle", after)
    /\ UNCHANGED <<build, env, formVars, localStorage, tutorVars, pipVars, toasts, permVars, engineVars, swVars, worker, toMain, overtaken,
                   visVars>>
    /\ clicks' = clicks + 1

\* The Reset button: setTimer(t => ({...t, isActive: false, timeLeft: 25 * 60, mode: 'study'}))
ResetTimer ==
    /\ clicks < MaxClicks
    /\ Len(toWorker) < MaxInFlight
    /\ LET after == [timer EXCEPT !.isActive = FALSE, !.timeLeft = 25 * 60,
                                  !.mode = "study"]
       IN  /\ timer' = after
           /\ toWorker' = toWorker \o IsActiveEffect(build, timer, after)
           /\ wakeLockRef' = WakeLockAfter(build, timer, after, wakeLockRef, wakeLock).ref
           /\ wakeLock' = WakeLockAfter(build, timer, after, wakeLockRef, wakeLock).lock
           /\ TimerHistory("reset", after)
    /\ UNCHANGED <<build, env, formVars, localStorage, tutorVars, pipVars, toasts, permVars, engineVars, swVars, worker, toMain, overtaken,
                   visVars>>
    /\ clicks' = clicks + 1

\* App.tsx: the callback of the timer effect's setInterval(..., 1000), the render
\* that follows and its effect, which handles timeLeft === 0
TimerInterval ==
    /\ build = "App"
    /\ timer.isActive
    /\ timer.timeLeft > 0
    /\ \E throws \in BOOLEAN :
        LET ticked == [timer EXCEPT !.timeLeft = @ - 1]
            expired == ticked.timeLeft = 0
            after == IF expired THEN ExpiredTimer(ticked) ELSE ticked
            alert == ExpiryAlert(ticked.mode, throws)
        IN  /\ timer' = after
            /\ notification' = IF expired THEN alert.toast ELSE notification
            /\ swInbox' = IF expired THEN swInbox \o alert.posted ELSE swInbox
            /\ TimerHistory(IF expired THEN "expired" ELSE "tick", after)
    /\ UNCHANGED <<build, env, uiVars, permVars, swHistory, worker, toWorker, toMain, overtaken,
                   clicks, visVars, clock, pollDue, sinceTick, schedules, activeScheduleId,
                   nextScheduleId, nextSessionId, lastNotified, engine, fired, thrown,
                   tickedThisMinute, dueThisMinute, missed, tickless, lastTick>>

\* timerWorker.js: self.onmessage
WorkerReceive ==
    /\ build = "P1"
    /\ toWorker # <<>>
    /\ worker' = IF Head(toWorker).type = "START"
                 THEN [timeLeft |-> Head(toWorker).timeLeft, running |-> TRUE]
                 ELSE [worker EXCEPT !.running = FALSE]
    /\ toWorker' = Tail(toWorker)
    /\ overtaken' = 0
    /\ UNCHANGED <<build, env, uiVars, permVars, engineVars, swVars, timer, toMain, clicks,
                   lastEvent, expiredModes, activatedBy, unalerted, visVars>>

\* A worker whose interval is never cleared
WorkerTickKeepsRunning(w) == [timeLeft |-> w.timeLeft - 1, running |-> TRUE]

\* A worker whose interval callback does nothing while the tab is hidden
WorkerTickOnlyVisible(w) ==
    IF visible THEN [timeLeft |-> w.timeLeft - 1, running |-> ~(w.timeLeft - 1 <= 0)]
    ELSE w

\* timerWorker.js: timeLeft--; ... if (timeLeft <= 0) clearInterval(timerId)
WorkerTick(w) == [timeLeft |-> w.timeLeft - 1, running |-> ~(w.timeLeft - 1 <= 0)]

\* timerWorker.js: the callback of setInterval(..., 1000)
WorkerInterval ==
    /\ build = "P1"
    /\ worker.running
    /\ Len(toMain) < MaxInFlight
    /\ worker.timeLeft > 0 - MaxBelowZero
    /\ toWorker = <<>> \/ overtaken < MaxOvertake
    /\ overtaken' = IF toWorker = <<>> THEN overtaken ELSE overtaken + 1
    /\ tickedHidden' = (tickedHidden \/ ~visible)
    /\ LET timeLeft == WorkerTick(worker).timeLeft
       IN  /\ worker' = WorkerTick(worker)
           /\ toMain' = toMain \o <<[type |-> "TICK", timeLeft |-> timeLeft]>>
                               \o (IF timeLeft <= 0 THEN <<[type |-> "EXPIRED"]>> ELSE <<>>)
    /\ UNCHANGED <<build, env, uiVars, permVars, engineVars, swVars, timer, toWorker, clicks,
                   lastEvent, expiredModes, activatedBy, unalerted, visible>>

\* part_001: workerRef.current.onmessage, the render that follows and the effect
\* on [timer.isActive]
MainReceive ==
    /\ build = "P1"
    /\ toMain # <<>>
    /\ \E throws \in BOOLEAN :
        LET msg == Head(toMain)
            expired == msg.type = "EXPIRED"
            after == IF expired THEN HandleTimerExpired(timer)
                     ELSE [timer EXCEPT !.timeLeft = msg.timeLeft]
            alert == ExpiryAlert(timer.mode, throws)
            \* handleTimerExpired calls releaseWakeLock() whatever isActive was
            held == IF expired THEN [timer EXCEPT !.isActive = TRUE] ELSE timer
        IN  /\ timer' = after
            /\ toMain' = Tail(toMain)
            /\ toWorker' = toWorker \o IsActiveEffect(build, timer, after)
            /\ wakeLockRef' = WakeLockAfter(build, held, after, wakeLockRef, wakeLock).ref
            /\ wakeLock' = WakeLockAfter(build, held, after, wakeLockRef, wakeLock).lock
            /\ notification' = IF expired THEN alert.toast ELSE notification
            /\ swInbox' = IF expired THEN swInbox \o alert.posted ELSE swInbox
            /\ TimerHistory(IF expired THEN "expired" ELSE "tick", after)
    /\ UNCHANGED <<build, env, formVars, localStorage, tutorVars, pipVars, toasts, permVars, swHistory, worker, overtaken, clicks, visVars,
                   clock, pollDue, sinceTick, schedules, activeScheduleId,
                   nextScheduleId, nextSessionId, lastNotified, engine, fired, thrown,
                   tickedThisMinute, dueThisMinute, missed, tickless, lastTick>>

\* part_001, requestWakeLock after its await: navigator.wakeLock.request settles
WakeLockSettles ==
    /\ wakeLock.pending > 0
    /\ \E rejects \in BOOLEAN :
        /\ wakeLockRef' = IF rejects THEN wakeLockRef ELSE "sentinel"
        /\ wakeLock' = [pending |-> wakeLock.pending - 1,
                        held |-> IF rejects THEN wakeLock.held ELSE wakeLock.held + 1]
    /\ UNCHANGED <<build, env, formVars, localStorage, tutorVars, pipVars, toasts, permVars,
                   engineVars, swVars, timerVars>>

\* The tab is hidden or shown again.  Neither build listens for
\* visibilitychange, and the worker's timer is not the page's.
VisibilityChange ==
    /\ visible' = ~visible
    /\ UNCHANGED <<build, env, uiVars, permVars, engineVars, swVars, timer, worker, toWorker,
                   toMain, clicks, overtaken, lastEvent, expiredModes, activatedBy, unalerted,
                   tickedHidden>>

InitTimer ==
    /\ timer = InitialTimer
    /\ worker = InitialWorker
    /\ toWorker = <<>>
    /\ toMain = <<>>
    /\ clicks = 0
    /\ overtaken = 0
    /\ visible = TRUE
    /\ tickedHidden = FALSE
    /\ lastEvent = NoEvent
    /\ expiredModes = <<>>
    /\ unalerted = 0
    /\ activatedBy = "none"
    /\ wakeLockRef = "null"
    /\ wakeLock = [pending |-> 0, held |-> 0]

-----------------------------------------------------------------------------
(* The engine with the schedule editor: a browser without service worker,     *)
(* notifications granted, nothing in localStorage.                            *)

\* a desktop browser tab that offers the Notification API and no service worker
PlainBrowser ==
    [serviceWorker |-> FALSE, registration |-> "none", notificationApi |-> TRUE,
     iosTab |-> FALSE]

\* Everything but the timer after the first render and its mount effects, given
\* what localStorage holds (the schedules, the active id and the ids they use up).
InitPage(stored, storedActiveId, usedIds, browsers, permissions, scripts) ==
    /\ build \in Builds
    /\ env \in browsers
    /\ swScript \in scripts
    /\ browserPermission \in
          (IF env.notificationApi THEN permissions ELSE {"default"})
    /\ notificationPermission = browserPermission
    /\ mountPermission = FirstRenderPermission(build, browserPermission)
    /\ clock = [week |-> 0, slot |-> 1, unit |-> 0]
    /\ pollDue = FALSE
    /\ sinceTick = 0
    /\ schedules = InitialSchedules(StorageLeftBy(stored, storedActiveId))
    /\ activeScheduleId = InitialActiveId(StorageLeftBy(stored, storedActiveId))
    /\ localStorage = StorageAfter(StorageLeftBy(stored, storedActiveId),
                                   schedules, activeScheduleId)
    /\ currentView = "MENU"
    /\ newScheduleName = <<>>
    /\ isCreatingSchedule = FALSE
    /\ InitTutor
    /\ nextScheduleId = Len(stored)
    /\ nextSessionId = usedIds
    /\ lastNotified = EmptyMarker
    /\ notification = NoToast
    /\ toasts = [timers |-> <<>>, shown |-> 0]
    /\ engine = [schedules |-> schedules, lastNotified |-> lastNotified,
                 permission |-> mountPermission]
    /\ fired = ZeroCounts
    /\ thrown = {}
    /\ tickedThisMinute = FALSE
    /\ dueThisMinute = {}
    /\ missed = {}
    /\ tickless = FALSE
    /\ lastTick = NoTick
    /\ InitServiceWorker

\* The state after the first render and its mount effects
InitApp(stored, storedActiveId, usedIds, browsers, permissions, scripts) ==
    /\ InitPage(stored, storedActiveId, usedIds, browsers, permissions, scripts)
    /\ InitTimer
    /\ InitPip({PlainPip})

\* One stored schedule holding up to MaxStored sessions; the app runs
\* untouched for MaxWeek + 1 weeks.
InitEngine ==
    \E n \in 0..MaxStored : \E inputs \in [1..n -> SessionInputs] :
        InitApp(<<[id |-> 1, name |-> <<"a">>, sessions |-> [i \in 1..n |-> WithId(inputs[i], i)]]>>, 1, n,
                {PlainBrowser}, {"granted"}, {"sw.js"})

NextEngine ==
    \/ AdvanceClock
    \/ PollTick

SpecEngine == InitEngine /\ [][NextEngine]_vars

\* Nothing stored; the user edits schedules while the engine runs.
InitEditor == InitApp(<<>>, 0, 0, {PlainBrowser}, {"granted"}, {"sw.js"})

NextEditor ==
    \/ AdvanceClock
    \/ PollTick
    \/ CreateSchedule
    \/ SelectSchedule
    \/ DeleteSchedule
    \/ AddSessionToActive
    \/ RemoveSessionFromActive

SpecEditor == InitEditor /\ [][NextEditor]_vars

-----------------------------------------------------------------------------
(* The engine while the notification permission changes: one stored session. *)

InitPermission ==
    \E input \in SessionInputs :
        InitApp(<<[id |-> 1, name |-> <<"a">>, sessions |-> <<WithId(input, 1)>>]>>, 1, 1,
                {PlainBrowser}, Permissions, {"sw.js"})

NextPermission ==
    \/ AdvanceClock
    \/ PollTick
    \/ RequestNotificationPermission
    \/ SyncPermission
    \/ ChangeSitePermission

SpecPermission == InitPermission /\ [][NextPermission]_vars

-----------------------------------------------------------------------------
(* Dispatch: any browser, any permission, either service worker script.      *)

\* getRegistrations() has something to return only where service workers exist
Browsers ==
    {e \in [serviceWorker : BOOLEAN,
            registration : {"none", "waiting", "active", "rejects"},
            notificationApi : BOOLEAN, iosTab : BOOLEAN] :
        ~e.serviceWorker => e.registration = "none"}

InitDispatch == InitApp(<<>>, 0, 0, Browsers, Permissions, SwScripts)

NextDispatch ==
    \/ RaiseAlert
    \/ ToastTimeout
    \/ SwLifecycle
    \/ SwReceive
    \/ RequestNotificationPermission

SpecDispatch == InitDispatch /\ [][NextDispatch]_vars

-----------------------------------------------------------------------------
(* The Pomodoro timer alone: a plain browser, nothing stored.                *)

InitPomodoro == InitApp(<<>>, 0, 0, {PlainBrowser}, {"granted"}, {"sw.js"})

NextPomodoro ==
    \/ ToggleTimer
    \/ ResetTimer
    \/ TimerInterval
    \/ WorkerReceive
    \/ WorkerInterval
    \/ MainReceive

SpecPomodoro == InitPomodoro /\ [][NextPomodoro]_vars

\* The timer and the wake lock requests it makes
NextWakeLock ==
    \/ NextPomodoro
    \/ WakeLockSettles

SpecWakeLock == InitPomodoro /\ [][NextWakeLock]_vars

\* The timer in the last seconds of a countdown the user started: the page
\* and the worker agree on timeLeft and no message is on the way.
InitLastSeconds ==
    /\ \E mode \in Modes, t \in 1..MaxRemaining :
        /\ timer = [isActive |-> TRUE, timeLeft |-> t, mode |-> mode]
        /\ worker = IF build = "P1" THEN [timeLeft |-> t, running |-> TRUE]
                    ELSE InitialWorker
        /\ expiredModes = IF mode = "break" THEN <<"break">> ELSE <<>>
        /\ unalerted = 0
    /\ toWorker = <<>>
    /\ toMain = <<>>
    /\ clicks = MaxClicks - 1
    /\ overtaken = 0
    /\ visible = TRUE
    /\ tickedHidden = FALSE
    /\ lastEvent = NoEvent
    /\ activatedBy = "toggle"
    /\ wakeLockRef = IF build = "P1" THEN "sentinel" ELSE "null"
    /\ wakeLock = [pending |-> 0, held |-> IF build = "P1" THEN 1 ELSE 0]

-----------------------------------------------------------------------------
(* The schedule menu and the session editor: the storage holds nothing or one *)
(* schedule with up to MaxStored sessions, left of the MaxStored an earlier    *)
(* visit created; the engine's clock stands still.  SpecSessions edits the     *)
(* schedules and their sessions, SpecForms works the schedule form.            *)

\* the first choice of each <select> of the session editor
DefaultInput == CHOOSE input \in SessionInputs : TRUE

InitStored ==
    \/ /\ InitPage(<<>>, 0, 0, {PlainBrowser}, {"granted"}, {"sw.js"})
       /\ InitTimer
       /\ InitPip({PlainPip})
    \/ \E n \in 0..MaxStored, activeId \in {0, 1} :
        /\ InitPage(<<[id |-> 1, name |-> <<"a">>,
                       sessions |-> [i \in 1..n |-> WithId(DefaultInput, i)]]>>,
                    activeId, MaxStored, {PlainBrowser}, {"granted"}, {"sw.js"})
        /\ InitTimer
        /\ InitPip({PlainPip})

\* removeSessionFromActive, called with the id of any session or of none
RemoveAnySession == \E sessionId \in 1..(MaxStored + MaxSessions + 1) : RemoveSession(sessionId)

\* addSessionToActive, after the sessions an earlier visit created
AddAnySession ==
    /\ nextSessionId < MaxStored + MaxSessions
    /\ \E input \in SessionInputs : AddSession(input)

NextSessions ==
    \/ CreateSchedule
    \/ SelectSchedule
    \/ DeleteSchedule
    \/ AddAnySession
    \/ RemoveAnySession

SpecSessions == InitStored /\ [][NextSessions]_vars

NextForms ==
    \/ OpenScheduleForm
    \/ ChangeScheduleName
    \/ SubmitSchedule
    \/ Navigate
    \/ SelectSchedule
    \/ DeleteSchedule

SpecForms == InitStored /\ [][NextForms]_vars

\* The handlers the rendered view offers: the header always, MenuView's while
\* currentView is MENU, EditorView's while it is EDITOR and the active schedule
\* exists (DashboardView's onGoToEditor and onStartTutor act as the NavButtons).
NextViews ==
    \/ Navigate
    \/ currentView = "MENU" /\ OpenScheduleForm
    \/ currentView = "MENU" /\ isCreatingSchedule /\ CreateSchedule
    \/ currentView = "MENU" /\ SelectSchedule
    \/ currentView = "MENU" /\ DeleteSchedule
    \/ /\ currentView = "EDITOR"
       /\ activeScheduleId \in ScheduleIds(schedules)
       /\ AddAnySession
    \/ /\ currentView = "EDITOR"
       /\ activeScheduleId \in ScheduleIds(schedules)
       /\ RemoveAnySession

SpecViews == InitStored /\ [][NextViews]_vars

-----------------------------------------------------------------------------
(* The tutor's chat alone, and the minimize button in every browser. *)

NextTutor ==
    \/ SendMessage
    \/ ReceiveResponse

SpecTutor == InitPomodoro /\ [][NextTutor]_vars

InitMinimize ==
    /\ InitPage(<<>>, 0, 0, {PlainBrowser}, {"granted"}, {"sw.js"})
    /\ InitTimer
    /\ InitPip(PipStates)

NextMinimize ==
    \/ Minimize
    \/ CloseMiniMode
    \/ ClosePipWindow
    \/ Navigate

SpecMinimize == InitMinimize /\ [][NextMinimize]_vars

-----------------------------------------------------------------------------
(* The timer next to the schedules: nothing stored, the schedules are edited  *)
(* and the engine polls through its first MaxPolls periods while a countdown  *)
(* runs out; countdowns are followed through their last MaxRemaining seconds  *)
(* and the user has one click on the timer's buttons left.                    *)

InitIndependence ==
    /\ InitPage(<<>>, 0, 0, {PlainBrowser}, {"granted"}, {"sw.js"})
    /\ InitLastSeconds
    /\ InitPip({PlainPip})

NextIndependence ==
    \/ AdvanceClock /\ clock.week = 0 /\ clock.slot = 1 /\ clock.unit < MaxPolls
    \/ PollTick
    \/ CreateSchedule
    \/ SelectSchedule
    \/ DeleteSchedule
    \/ AddSessionToActive
    \/ RemoveSessionFromActive
    \/ ToggleTimer
    \/ ResetTimer
    \/ TimerInterval /\ timer.timeLeft <= MaxRemaining
    \/ WorkerReceive
    \/ WorkerInterval /\ worker.timeLeft <= MaxRemaining
    \/ MainReceive

SpecIndependence == InitIndependence /\ [][NextIndependence]_vars

\* The timer while the tab is hidden and shown
NextVisibility ==
    \/ NextPomodoro
    \/ VisibilityChange

SpecVisibility == InitPomodoro /\ [][NextVisibility]_vars

-----------------------------------------------------------------------------
(* Claims about the notification engine *)

\* C1: in App.tsx no boundary of any session is alerted more than once within
\* one wall-clock minute, whatever the stored sessions are.
C1_AppOneAlertPerMinute ==
    build = "App" => \A b \in Boundaries : fired[b] <= 1

\* C2: in part_001 no boundary of any session is alerted more than once within
\* one wall-clock minute, over any number of poll ticks and any sessions
\* sharing the minute.
C2_P1OneAlertPerMinute ==
    build = "P1" => \A b \in Boundaries : fired[b] <= 1

\* Two sessions had a boundary in the current minute, both were alerted, and a
\* later poll tick of the same minute ran and raised nothing.
C2_Witness ==
    /\ build = "P1"
    /\ \E b1, b2 \in Boundaries :
        /\ b1[1] # b2[1]
        /\ fired[b1] = 1
        /\ fired[b2] = 1
        /\ {b1, b2} \subseteq DueNow(build, schedules, Now)
    /\ ~pollDue
    /\ sinceTick = 0
    /\ clock.unit >= 2
    /\ lastTick = NoTick

\* C3: when a minute ends, every boundary that a poll tick of that minute
\* found due (stored session, its day, its start or end time) has been alerted
\* in that minute; in every week, and for sessions that start and end in the
\* same minute.
C3_DueBoundaryAlerted == missed = {}

\* C4: every alert is raised by a poll tick at which the session is stored in
\* some schedule, the day is the session's day and the time is the session's
\* start time (START) or end time (FINISH).
C4_AlertsOnlyWhenDue ==
    \A i \in DOMAIN lastTick :
        /\ lastTick[i].present
        /\ lastTick[i].dayOk
        /\ lastTick[i].timeOk

\* A poll tick alerted a session of a schedule that is not the active one, after
\* a session had been created.
C4_Witness ==
    /\ Len(lastTick) = 1
    /\ \E i \in DOMAIN schedules :
        /\ schedules[i].id # activeScheduleId
        /\ lastTick[1].boundary[1] \in SessionIds(<<schedules[i]>>)

\* C6: after a poll tick the next one comes one poll period later, so never
\* more than one period passes without a tick and no minute ends without one.
C6_PollEveryPeriod == sinceTick <= 1 /\ ~tickless

\* C9: a dispatch that throws is swallowed, its toast is shown, its boundary is
\* recorded in the last-fired marker, and no boundary whose dispatch threw is
\* dispatched again in the same minute.
C9_NoRetryAfterThrow ==
    \A i \in DOMAIN lastTick :
        /\ lastTick[i].threw =>
              /\ ~lastTick[i].escaped
              /\ lastTick[i].toast
              /\ lastTick[i].recorded
        /\ lastTick[i].channel # "none" => ~lastTick[i].afterThrow

\* C5: a poll tick's alert reaches a platform notification call exactly when
\* the app's notificationPermission is 'granted' at that tick.
C5_DispatchIffGranted ==
    \A i \in DOMAIN lastTick :
        (lastTick[i].channel # "none") <=> (lastTick[i].permission = "granted")

-----------------------------------------------------------------------------
(* Claims about the dispatch and the service worker *)

\* C7: the service worker of src/sw.js answers every SHOW_NOTIFICATION message
\* it receives with exactly one showNotification call that carries the posted
\* title and the posted options extended with data.dateOfArrival.
C7_PostedMessageShown ==
    (swScript = "sw.js" /\ swLast.handled) =>
        swLast.shown = <<[title |-> swLast.message.title,
                          options |-> WithDateOfArrival(swLast.message.options)]>>

\* C8: part_001's triggerNotification, called with system = true, uses
\* postMessage when a registration with an active worker exists,
\* registration.showNotification when the registration has no active worker,
\* new Notification when there is no registration or no service worker support
\* but the Notification API, each provided the permission is 'granted' (and
\* getRegistrations() resolves); without the permission it uses no channel.
C8_ChannelSelection ==
    (build = "P1" /\ lastAlert.raised /\ lastAlert.system) =>
        IF lastAlert.permission = "granted"
        THEN /\ (lastAlert.serviceWorker /\ lastAlert.registration = "active")
                    => lastAlert.channel = "postMessage"
             /\ (lastAlert.serviceWorker /\ lastAlert.registration = "waiting")
                    => lastAlert.channel = "showNotification"
             /\ (lastAlert.serviceWorker /\ lastAlert.registration = "none")
                    => lastAlert.channel = "Notification"
             /\ (~lastAlert.serviceWorker /\ lastAlert.notificationApi)
                    => lastAlert.channel = "Notification"
        ELSE lastAlert.channel = "none"

\* A granted system alert was posted to the active worker of the registration,
\* and the worker has received a message.
C8_Witness ==
    /\ build = "P1"
    /\ lastAlert.raised
    /\ lastAlert.system
    /\ lastAlert.permission = "granted"
    /\ lastAlert.registration = "active"
    /\ lastAlert.channel = "postMessage"
    /\ swLast.handled

-----------------------------------------------------------------------------
(* Claims about the Pomodoro timer *)

\* C10: an expiry leaves the timer inactive, in the other mode, with that
\* mode's full duration (break 5*60, study 25*60); two successive expiries
\* without a Reset lead to different modes; isActive becomes true only through
\* the Start button; and a countdown that reached 0 is expired at once
\* (App.tsx) or has its EXPIRED message on the way (part_001).
C10_ExpiryAlternates ==
    /\ lastEvent.name = "expired" =>
          /\ ~timer.isActive
          /\ timer.mode # lastEvent.from
          /\ timer.timeLeft = (IF timer.mode = "break" THEN 5 * 60 ELSE 25 * 60)
    /\ Len(expiredModes) = 2 => expiredModes[1] # expiredModes[2]
    /\ activatedBy \in {"none", "toggle"}
    /\ timer.timeLeft <= 0 =>
          /\ build = "P1"
          /\ \E i \in DOMAIN toMain : toMain[i].type = "EXPIRED"

\* The worker-driven timer has just expired for the second time since Reset:
\* study ran out, then break ran out, and study is up again, not running.
C10_Witness ==
    /\ build = "P1"
    /\ lastEvent = [name |-> "expired", from |-> "break"]
    /\ expiredModes = <<"break", "study">>
    /\ timer = [isActive |-> FALSE, timeLeft |-> 25 * 60, mode |-> "study"]

\* C11: hiding or showing the tab changes nothing of the timer, the worker or
\* the messages between them, and every interval callback of the worker,
\* with the tab visible or hidden, decrements the worker's timeLeft by one and
\* posts a TICK that carries the new value.
C11_VisibilityIndependent ==
    [][/\ (visible' # visible) =>
             /\ timer' = timer
             /\ worker' = worker
             /\ toWorker' = toWorker
             /\ toMain' = toMain
       /\ (Len(toMain') > Len(toMain)) =>
             /\ worker'.timeLeft = worker.timeLeft - 1
             /\ toMain'[Len(toMain) + 1] =
                    [type |-> "TICK", timeLeft |-> worker.timeLeft - 1]]_vars

\* The tab is hidden, the worker counted while it was, and the countdown has
\* just expired on the page.
C11_Witness ==
    /\ build = "P1"
    /\ ~visible
    /\ tickedHidden
    /\ lastEvent.name = "expired"
    /\ clicks = 1

(***************************************************************************)
(* C12: the Pomodoro timer and the schedules are independent.  A step that *)
(* changes the schedules, the active schedule id or the last-fired marker  *)
(* (creating, selecting or deleting a schedule, adding or removing a       *)
(* session, a session-boundary alert) leaves the timer as it was, and a    *)
(* step that changes the timer (start, pause, reset, tick, expiry) leaves  *)
(* the schedules, the active schedule id and the last-fired marker as      *)
(* they were.                                                              *)
(***************************************************************************)
C12_TimerAndSchedulesIndependent ==
    [][/\ (\/ schedules' # schedules
           \/ activeScheduleId' # activeScheduleId
           \/ lastNotified' # lastNotified) => timer' = timer
       /\ (timer' # timer) =>
              /\ schedules' = schedules
              /\ activeScheduleId' = activeScheduleId
              /\ lastNotified' = lastNotified]_vars

\* a countdown has expired in a page that holds a schedule and has alerted a
\* session boundary
C12_Witness ==
    /\ lastEvent.name = "expired"
    /\ schedules # <<>>
    /\ lastNotified # EmptyMarker

-----------------------------------------------------------------------------
(* Claims about the schedules and their storage *)

(***************************************************************************)
(* C13: once the storage effects have run, the item stored under           *)
(* 'med_quest_v5_schedules' parses to exactly the current schedules and    *)
(* the item under 'med_quest_v5_active_id' is the active schedule id, the  *)
(* key being absent when the id is null; initialising the two states from  *)
(* the storage again yields the same schedules in the same order and the   *)
(* same active id.                                                         *)
(***************************************************************************)
C13_StorageMirrorsSchedules ==
    /\ localStorage[STORAGE_KEY] # NoItem
    /\ JsonParse(localStorage[STORAGE_KEY][1]) = schedules
    /\ localStorage[ACTIVE_ID_KEY] =
           (IF activeScheduleId = 0 THEN NoItem ELSE <<activeScheduleId>>)
    /\ InitialSchedules(localStorage) = schedules
    /\ InitialActiveId(localStorage) = activeScheduleId

\* a schedule was created and given a session, then the stored schedule was
\* selected and deleted: no schedule is active, one with a session remains
C13_Witness ==
    /\ activeScheduleId = 0
    /\ Len(schedules) = 1
    /\ schedules[1].id = 2
    /\ schedules[1].sessions # <<>>

(***************************************************************************)
(* C14: addSessionToActive, called while a schedule is active, appends     *)
(* exactly one session, made of the given subject, day, startTime and      *)
(* endTime and an id no session had, at the end of the active schedule's   *)
(* list; the sessions that were there stay, in their order, and every      *)
(* other schedule is unchanged.  Called while no schedule is active it     *)
(* changes no schedule.                                                    *)
(***************************************************************************)
C14_AddAppendsToActiveOnly ==
    [][\A input \in SessionInputs :
          AddSession(input) =>
              IF activeScheduleId = 0
              THEN schedules' = schedules
              ELSE /\ Len(schedules') = Len(schedules)
                   /\ \A i \in DOMAIN schedules :
                          IF schedules[i].id = activeScheduleId
                          THEN /\ schedules'[i].id = schedules[i].id
                               /\ schedules'[i].name = schedules[i].name
                               /\ Len(schedules'[i].sessions) = Len(schedules[i].sessions) + 1
                               /\ SubSeq(schedules'[i].sessions, 1, Len(schedules[i].sessions))
                                      = schedules[i].sessions
                               /\ LET added == schedules'[i].sessions[Len(schedules'[i].sessions)]
                                  IN  /\ added.subject = input.subject
                                      /\ added.day = input.day
                                      /\ added.startTime = input.startTime
                                      /\ added.endTime = input.endTime
                                      /\ added.id \notin SessionIds(schedules)
                          ELSE schedules'[i] = schedules[i]]_vars

\* a session was added to the stored schedule, after its MaxStored sessions,
\* while a second schedule exists
C14_Witness ==
    /\ Len(schedules) = 2
    /\ schedules[1].id = 1
    /\ Len(schedules[1].sessions) = MaxStored + 1
    /\ activeScheduleId = 1

(***************************************************************************)
(* C15: handleCreateSchedule, run while the name input holds nothing but   *)
(* whitespace, changes neither the schedules nor the active id nor the     *)
(* view.  Otherwise it appends exactly one schedule, named by the input    *)
(* without its surrounding whitespace and holding no session, at the end   *)
(* of the list, makes it the active schedule, empties the name input and   *)
(* switches the view to EDITOR.                                            *)
(***************************************************************************)
C15_CreateNeedsAName ==
    [][SubmitSchedule =>
          IF \A k \in DOMAIN newScheduleName : newScheduleName[k] \in Whitespace
          THEN UNCHANGED <<schedules, activeScheduleId, currentView>>
          ELSE /\ Len(schedules') = Len(schedules) + 1
               /\ SubSeq(schedules', 1, Len(schedules)) = schedules
               /\ LET created == schedules'[Len(schedules')]
                      str == newScheduleName
                  IN  /\ \E i, j \in DOMAIN str :
                             /\ created.name = SubSeq(str, i, j)
                             /\ str[i] \notin Whitespace
                             /\ str[j] \notin Whitespace
                             /\ \A k \in DOMAIN str :
                                    (k < i \/ k > j) => str[k] \in Whitespace
                      /\ created.sessions = <<>>
                      /\ created.id \notin ScheduleIds(schedules)
                      /\ activeScheduleId' = created.id
               /\ newScheduleName' = <<>>
               /\ currentView' = "EDITOR"]_vars

\* the open form was submitted with a name: the new schedule follows the
\* stored one, is active and shown in the editor, the form is closed and empty
C15_Witness ==
    /\ Len(schedules) = 2
    /\ schedules[2].name = <<"a">>
    /\ schedules[2].sessions = <<>>
    /\ activeScheduleId = schedules[2].id
    /\ currentView = "EDITOR"
    /\ newScheduleName = <<>>
    /\ ~isCreatingSchedule

(***************************************************************************)
(* C16: removeSessionFromActive(id) removes from the active schedule       *)
(* exactly the sessions of that id and keeps the others in their order;    *)
(* every other schedule is unchanged, and so are all schedules when the    *)
(* active schedule holds no session of that id.                            *)
(***************************************************************************)
C16_RemoveFiltersActiveOnly ==
    [][\A sessionId \in 1..(MaxStored + MaxSessions + 1) :
          RemoveSession(sessionId) =>
              /\ Len(schedules') = Len(schedules)
              /\ \A i \in DOMAIN schedules :
                     IF schedules[i].id = activeScheduleId
                     THEN /\ schedules'[i].id = schedules[i].id
                          /\ schedules'[i].name = schedules[i].name
                          /\ LET r == schedules'[i].sessions
                                 s == schedules[i].sessions
                                 kept == {j \in DOMAIN s : s[j].id # sessionId}
                             IN  /\ Len(r) = Cardinality(kept)
                                 /\ \A n \in DOMAIN r :
                                        r[n] = s[CHOOSE j \in kept :
                                                   Cardinality({k \in kept : k < j}) = n - 1]
                     ELSE schedules'[i] = schedules[i]
              /\ (\A i \in DOMAIN schedules :
                      schedules[i].id = activeScheduleId =>
                          sessionId \notin SessionIds(<<schedules[i]>>))
                     => schedules' = schedules]_vars

\* the first of the stored schedule's sessions was removed and the second is
\* left, while the other schedule keeps the session it was given
C16_Witness ==
    /\ Len(schedules) = 2
    /\ schedules[1].id = 1
    /\ Len(schedules[1].sessions) = 1
    /\ schedules[1].sessions[1].id = 2
    /\ schedules[2].sessions # <<>>

(***************************************************************************)
(* C17: the worker's countdown.  Receiving START with timeLeft = n sets    *)
(* the worker's timeLeft to n and its interval; each interval callback     *)
(* lowers timeLeft by one and posts one TICK carrying the new value,       *)
(* followed by one EXPIRED exactly when that value is 0, and the interval  *)
(* is cleared then; a worker whose interval is not set posts nothing, and  *)
(* timeLeft changes in no other way.  So START n, n >= 1, with no further  *)
(* message, is followed by n TICKs carrying n-1 .. 0 in order, then one    *)
(* EXPIRED, then nothing until the next START.                             *)
(***************************************************************************)
C17_WorkerCountsDownToExpired ==
    [][LET posted == SubSeq(toMain', Len(toMain) + 1, Len(toMain'))
           received == toWorker # <<>> /\ toWorker' = Tail(toWorker)
           tick == [type |-> "TICK", timeLeft |-> worker.timeLeft - 1]
       IN  /\ (received /\ Head(toWorker).type = "START") =>
                  /\ worker'.timeLeft = Head(toWorker).timeLeft
                  /\ worker'.running
           /\ (Len(toMain') > Len(toMain)) =>
                  /\ worker.running
                  /\ worker'.timeLeft = worker.timeLeft - 1
                  /\ IF worker.timeLeft - 1 <= 0
                     THEN posted = <<tick, [type |-> "EXPIRED"]>> /\ ~worker'.running
                     ELSE posted = <<tick>> /\ worker'.running
           /\ (worker'.timeLeft # worker.timeLeft) =>
                  \/ Len(toMain') > Len(toMain)
                  \/ received /\ Head(toWorker).type = "START"
           /\ (worker'.running /\ ~worker.running) =>
                  received /\ Head(toWorker).type = "START"]_vars

\* after the one START of this run the worker has counted 25 * 60 down to 0,
\* posted EXPIRED last and cleared its interval
C17_Witness ==
    /\ build = "P1"
    /\ clicks = 1
    /\ worker = [timeLeft |-> 0, running |-> FALSE]
    /\ toMain # <<>>
    /\ toMain[Len(toMain)] = [type |-> "EXPIRED"]
    /\ toWorker = <<>>

-----------------------------------------------------------------------------
(* Claims about the tutor and the mini mode *)

(***************************************************************************)
(* C18: the request handleSendMessage hands to getTutorResponse.  Its      *)
(* contents are the last six (all, if fewer) of the messages the subject's *)
(* history held before the send, in their order, followed by one final     *)
(* user turn carrying the new text; the new message is appended to that    *)
(* subject's history only and does not appear in the request a second      *)
(* time, and no message of another subject's history is included.          *)
(***************************************************************************)
C18_RequestIsRecentHistoryThenText ==
    [][(isTyping' /\ ~isTyping) =>
          \E subject \in TutorSubjects :
              LET earlier == chatHistory[subject]
                  contents == lastRequest'.contents
                  n == IF Len(earlier) < HistoryWindow THEN Len(earlier) ELSE HistoryWindow
              IN  /\ lastRequest'.subject = subject
                  /\ Len(chatHistory'[subject]) = Len(earlier) + 1
                  /\ SubSeq(chatHistory'[subject], 1, Len(earlier)) = earlier
                  /\ chatHistory'[subject][Len(earlier) + 1].role = "user"
                  /\ \A other \in TutorSubjects \ {subject} :
                         chatHistory'[other] = chatHistory[other]
                  /\ Len(contents) = n + 1
                  /\ \A k \in 1..n :
                         contents[k] = [role |-> earlier[Len(earlier) - n + k].role,
                                        text |-> earlier[Len(earlier) - n + k].content]
                  /\ contents[n + 1] =
                         [role |-> "user",
                          text |-> chatHistory'[subject][Len(earlier) + 1].content]]_vars

\* a request is out whose subject held more than six messages before it
C18_Witness ==
    /\ isTyping
    /\ lastRequest.subject \in TutorSubjects
    /\ Len(chatHistory[lastRequest.subject]) = MaxMessages - 1
    /\ Len(lastRequest.contents) = HistoryWindow + 1

(***************************************************************************)
(* C19: handleMinimize enters the internal mini mode exactly when          *)
(* togglePiP returns false, that is when the video or canvas ref is        *)
(* missing, when no window is open and the video offers no                 *)
(* picture-in-picture API, or when a call made by togglePiP throws or      *)
(* rejects: isMiniMode is true afterwards and the info toast is shown.     *)
(* When togglePiP returns true, isMiniMode and the toast are unchanged.    *)
(***************************************************************************)
C19_MiniModeIffPipFails ==
    [][\A rejects \in BOOLEAN :
          HandleMinimize(rejects) =>
              LET fails == \/ ~pip.refs
                           \/ ~pip.open /\ pip.api = "none"
                           \/ rejects /\ pip.api # "none"
              IN  /\ fails = ~TogglePiP(pip, isPiPActive, rejects).success
                  /\ IF fails
                     THEN /\ isMiniMode'
                          /\ notification'.type = "info"
                          /\ UNCHANGED <<isPiPActive, pip>>
                     ELSE /\ isMiniMode' = isMiniMode
                          /\ notification' = notification]_vars

\* the picture-in-picture window is open and the mini mode is off, although
\* an earlier minimize fell back to the mini mode and raised its toast
C19_Witness ==
    /\ build = "P1"
    /\ pip.open
    /\ isPiPActive
    /\ ~isMiniMode
    /\ notification.type = "info"

(***************************************************************************)
(* C20: in the worker-driven timer, while timer.isActive is false,         *)
(* timer.timeLeft and timer.mode change only through Reset, which sets     *)
(* them to 25 * 60 and study: no TICK or EXPIRED of the worker alters them *)
(* after a pause, a reset or an expiry.                                    *)
(***************************************************************************)
C20_InactiveTimerChangesOnlyByReset ==
    [][(/\ build = "P1"
        /\ ~timer.isActive
        /\ timer'.timeLeft # timer.timeLeft \/ timer'.mode # timer.mode)
          => /\ timer' = [isActive |-> FALSE, timeLeft |-> 25 * 60, mode |-> "study"]
             /\ toMain' = toMain]_vars

-----------------------------------------------------------------------------
(* Claims about the wake lock, the countdown's range, the toasts, the views *)
(* and the tutor's typing flag                                              *)

(***************************************************************************)
(* C21: the screen wake lock is held only while the timer is active: while *)
(* timer.isActive is false no sentinel obtained by the page is left        *)
(* unreleased, whenever the request settles.                               *)
(***************************************************************************)
C21_NoWakeLockWhileInactive ==
    (build = "P1" /\ ~timer.isActive) => wakeLock.held = 0

(***************************************************************************)
(* C22: in every reachable state of either build the timer shows between   *)
(* 0 and 25 * 60 seconds, and every TICK the worker has posted carries a   *)
(* timeLeft that is not negative.                                          *)
(***************************************************************************)
C22_TimeLeftInRange ==
    /\ 0 <= timer.timeLeft
    /\ timer.timeLeft <= 25 * 60
    /\ \A i \in DOMAIN toMain : toMain[i].type = "TICK" => toMain[i].timeLeft >= 0

(***************************************************************************)
(* C23: each time the countdown reaches zero exactly one expiry alert is   *)
(* raised, with the message of the mode that ended: no expiry alert        *)
(* without a countdown the page saw reach zero, at most one countdown at   *)
(* zero waiting for its alert, and the toast of an expiry carries the      *)
(* message of the mode the expiry ended.                                   *)
(***************************************************************************)
C23_OneAlertPerExpiry ==
    /\ unalerted \in {0, 1}
    /\ build = "App" => unalerted = 0
    /\ lastEvent.name = "expired" =>
          notification.message = ExpiryMessage(build, lastEvent.from)

(***************************************************************************)
(* C24: a toast is removed automatically only by its own 5-second timer:   *)
(* a timer that fires and takes the shown toast away was set for that      *)
(* toast, never for an earlier one.                                        *)
(***************************************************************************)
C24_ToastRemovedByOwnTimer ==
    [][(/\ toasts.timers # <<>>
        /\ toasts'.timers = Tail(toasts.timers)
        /\ toasts.shown # 0
        /\ notification' = NoToast)
         => Head(toasts.timers).toast = toasts.shown]_vars

(***************************************************************************)
(* C25: started from storage whose active id is absent or names a stored   *)
(* schedule, activeScheduleId is always null (0) or the id of a schedule   *)
(* in the list; while the view is DASHBOARD or EDITOR the active schedule  *)
(* exists; and a step that deletes the active schedule leaves              *)
(* activeScheduleId null.                                                  *)
(***************************************************************************)
C25_ActiveScheduleExists ==
    [][LET Consistent(activeId, scheds, view) ==
               /\ activeId = 0 \/ activeId \in ScheduleIds(scheds)
               /\ view \in {"DASHBOARD", "EDITOR"} => activeId \in ScheduleIds(scheds)
       IN  /\ Consistent(activeScheduleId, schedules, currentView)
           /\ Consistent(activeScheduleId', schedules', currentView')
           /\ (/\ activeScheduleId \in ScheduleIds(schedules)
               /\ activeScheduleId \notin ScheduleIds(schedules'))
                 => activeScheduleId' = 0]_vars

\* The active schedule, created in this visit, has been deleted from the menu
\* and another schedule is left.
C25_Witness ==
    /\ activeScheduleId = 0
    /\ nextScheduleId = MaxSchedules
    /\ Len(schedules) = 1
    /\ currentView = "MENU"

(***************************************************************************)
(* C26: isTyping is true exactly while a tutor request is outstanding,     *)
(* that is while the last message of the subject last asked about is the   *)
(* user's; and the step that ends a request, whether the API call          *)
(* succeeded, returned no text or threw, clears isTyping and appends       *)
(* exactly one model message to that subject's history: the response's     *)
(* text or the fixed fallback text.                                        *)
(***************************************************************************)
C26_TypingWhileRequestOutstanding ==
    [][LET Outstanding(request, history) ==
               /\ request.subject \in TutorSubjects
               /\ history[request.subject] # <<>>
               /\ history[request.subject][Len(history[request.subject])].role = "user"
       IN  /\ isTyping <=> Outstanding(lastRequest, chatHistory)
           /\ isTyping' <=> Outstanding(lastRequest', chatHistory')
           /\ (chatHistory' # chatHistory \/ isTyping' # isTyping) =>
                 IF isTyping
                 THEN /\ ~isTyping'
                      /\ \E content \in {"r", "The specialist node is temporarily unavailable."} :
                            chatHistory' = [chatHistory EXCEPT ![lastRequest.subject] =
                                               Append(@, [role |-> "model",
                                                          content |-> content])]
                 ELSE isTyping']_vars

\* The API call failed or returned no text: the request is over, isTyping is
\* false again and the fallback text is the last message of the subject.
C26_Witness ==
    /\ ~isTyping
    /\ lastRequest.subject \in TutorSubjects
    /\ chatHistory[lastRequest.subject] # <<>>
    /\ chatHistory[lastRequest.subject][Len(chatHistory[lastRequest.subject])]
         = [role |-> "model", content |-> "The specialist node is temporarily unavailable."]

====
